---- MODULE Spec2Model ----
(***************************************************************************)
(* LSML (Listed Sections Markup Language), C implementation: the arena,    *)
(* the interned-string table, the chunked hashmaps, the section store and  *)
(* the array sections of src/c/lsml.c, as a state machine.                 *)
(*                                                                         *)
(* Memory is the user-supplied buffer.  A pointer is a byte offset into    *)
(* the buffer; mem maps the offset of every object that was written to its *)
(* contents.  An object stays in mem after the cursor was moved back below *)
(* it (the bytes are still there) until a later write overlaps it.         *)
(***************************************************************************)
EXTENDS Integers, Sequences, FiniteSets, TLC

VARIABLES
    alloc,      \* lsml_bump_alloc_t: [offset, size]
    mem,        \* buffer contents: offset -> object
    data,       \* the fields of lsml_data_t
    hist,       \* history: what the operations returned to the caller
    ret         \* result of the last operation

vars == <<alloc, mem, data, hist, ret>>

\* ------------------------------------------------------------------ config

\* LSML_CHUNK_LEN is a compile-time setting (#ifndef LSML_CHUNK_LEN); it has
\* to be a power of two while LSML_CHUNK_LEN_IS_POW2 is defined.
LSML_CHUNK_LEN == 2

NULL == 0

\* Object sizes and alignment of an LP64 build.
SizeofData == 88
SizeofHmNode == 16
SizeofRegStr == 24
SizeofSection == 64
SizeofTableNode == 24
SizeofRowsIndex == 16
SizeofPtr == 8
SizeofChunk == SizeofPtr * (1 + LSML_CHUNK_LEN)
AlignStruct == 8
AlignChar == 1

LSML_TABLE == "TABLE"
LSML_ARRAY == "ARRAY"
LSML_ANYSECTION == "ANYSECTION"

\* ------------------------------------------------------------- arithmetic

\* lsml_index_t is uint32_t.  A 32-bit value is kept as two 16-bit halves,
\* [hi, lo], so that no intermediate result leaves the checker's integers.
Half == 65536

U32From(n) == [hi |-> (n \div Half) % Half, lo |-> n % Half]

U32Shl5(h) ==
    [hi |-> (h.hi * 32 + (h.lo * 32) \div Half) % Half, lo |-> (h.lo * 32) % Half]

U32Shr2(h) == [hi |-> h.hi \div 4, lo |-> (h.lo \div 4) + (h.hi % 4) * (Half \div 4)]

U32Add(a, b) ==
    [hi |-> (a.hi + b.hi + (a.lo + b.lo) \div Half) % Half, lo |-> (a.lo + b.lo) % Half]

RECURSIVE BitXor(_, _)
BitXor(a, b) ==
    IF a = 0 THEN b
    ELSE IF b = 0 THEN a
    ELSE (((a % 2) + (b % 2)) % 2) + 2 * BitXor(a \div 2, b \div 2)

RECURSIVE BitAnd(_, _)
BitAnd(a, b) ==
    IF a = 0 \/ b = 0 THEN 0
    ELSE ((a % 2) * (b % 2)) + 2 * BitAnd(a \div 2, b \div 2)

\* `With(e, LAMBDA x : body)` is body with x standing for the value of e: a
\* local variable of the function being modelled, assigned once.
With(v, Body(_)) == Body(v)

\* ------------------------------------------------------------------ arena

\* The threaded program state: the buffer, the cursor and the document.
\* The document as an operation finds it.  History only: hist.low is the
\* lowest position the operation sets the arena cursor back to, the size of
\* the buffer when it sets it back nowhere, hist.discards the temporary
\* strings it discards, each with the cursor and the document at that time,
\* and hist.high the end of the furthest write to a string it builds.
State ==
    [alloc |-> alloc, mem |-> mem, data |-> data,
     hist |-> [hist EXCEPT !.low = alloc.size, !.discards = <<>>, !.high = 0]]

Lower(low, offset) == IF offset < low THEN offset ELSE low

Higher(high, offset) == IF offset > high THEN offset ELSE high

lsml_bump_alloc(a, size, align) ==
    LET aligned_offset == ((a.offset + (align - 1)) \div align) * align
    IN  IF aligned_offset + size >= a.size
        THEN [alloc |-> a, ptr |-> NULL]
        ELSE [alloc |-> [a EXCEPT !.offset = aligned_offset + size],
              ptr |-> aligned_offset]

\* Writing object o at offset p overwrites whatever overlapped [p, p + o.sz).
Store(m, p, o) ==
    LET keep == {q \in DOMAIN m : q + m[q].sz <= p \/ p + o.sz <= q}
    IN  [q \in keep \cup {p} |-> IF q = p THEN o ELSE m[q]]

EmptyChunk ==
    [t |-> "chunk", sz |-> SizeofChunk, next |-> NULL,
     elems |-> [i \in 0..(LSML_CHUNK_LEN - 1) |-> NULL]]

\* ---------------------------------------------------------------- strings

RECURSIVE strlen(_)
strlen(b) == IF b = <<>> \/ Head(b) = 0 THEN 0 ELSE 1 + strlen(Tail(b))

\* The bytes of a caller's string: len bytes, or up to the first 0 if len = 0.
lsml_string_init(b, len) ==
    IF len = 0 THEN SubSeq(b, 1, strlen(b)) ELSE SubSeq(b, 1, len)

lsml_string_eq_len(a, b) == Len(a) = Len(b)

lsml_string_eq(a, b) == Len(a) = Len(b) /\ a = b

U32Xor(a, b) == [hi |-> BitXor(a.hi, b.hi), lo |-> BitXor(a.lo, b.lo)]

\* `h ^= ((h<<5) + (h>>2) + c)`
HashStep(h, c) == U32Xor(h, U32Add(U32Add(U32Shl5(h), U32Shr2(h)), U32From(c)))

\* `for (; l > 0; l--)`.  No half of h is ever negative; the test makes TLC
\* evaluate h in every iteration instead of all at once after the last.
RECURSIVE HashLoop(_, _, _)
HashLoop(b, l, h) ==
    IF l = 0 \/ h.lo < 0 THEN h
    ELSE HashLoop(b, l - 1, HashStep(h, b[l]))

lsml_hash_string(b) == HashLoop(b, Len(b), U32From(Len(b)))

\* a % b for b a power of two (LSML_CHUNK_LEN_IS_POW2): a & (b - 1).
lsml_mod_chunklen(a, b) == BitAnd(a, b - 1)

\* The bucket index of a 32-bit hash; cap is a power of two below 2^16.
HashIndex(h, cap) == lsml_mod_chunklen(h.lo, cap)

\* The bytes of the string a registered string record points to.
StrBytes(m, reg) == LET o == m[m[reg].str] IN SubSeq(o.b, 1, m[reg].len)

\* ---------------------------------------------------------- chunked array

NoBucket == [chunk |-> NULL, i |-> 0]

\* Follows `next` index \div LSML_CHUNK_LEN times; NoBucket if the chain ends.
RECURSIVE ChaWalk(_, _, _)
ChaWalk(m, cha, index) ==
    IF index >= LSML_CHUNK_LEN
    THEN IF m[cha].next = NULL THEN NoBucket
         ELSE ChaWalk(m, m[cha].next, index - LSML_CHUNK_LEN)
    ELSE [chunk |-> cha, i |-> index]

\* The element at index, NULL if there is none.
lsml_cha_get(m, header, n_elems, n_chunks, index) ==
    IF header = NULL \/ index >= n_elems \/ index >= n_chunks * LSML_CHUNK_LEN
    THEN NULL
    ELSE With(ChaWalk(m, header, index), LAMBDA w :
             IF w.chunk = NULL THEN NULL ELSE m[w.chunk].elems[w.i])

\* The address of bucket index: the chunk and the slot in it.
lsml_cha_get_bucket(m, header, n_chunks, index) ==
    IF header = NULL \/ index >= n_chunks * LSML_CHUNK_LEN
    THEN NoBucket
    ELSE ChaWalk(m, header, index)

\* ---------------------------------------------------------------- hashmap

\* The walk to the end of the chain, whatever the key.
RECURSIVE ChainEnd(_, _, _, _)
ChainEnd(m, node, prev, key) ==
    IF node = NULL THEN [node |-> NULL, prev |-> prev]
    ELSE ChainEnd(m, m[node].next, node, key)

\* Walks a collision chain from node; stops at the node keyed by the
\* registered string key, or at the end (node = NULL, prev = last node).
RECURSIVE ChainFindReg(_, _, _, _)
ChainFindReg(m, node, prev, key) ==
    IF node = NULL THEN [node |-> NULL, prev |-> prev]
    ELSE IF m[node].str = key THEN [node |-> node, prev |-> prev]
    ELSE ChainFindReg(m, m[node].next, node, key)

\* The same walk comparing by contents (lsml_string_eq).
RECURSIVE ChainFindStr(_, _, _, _)
ChainFindStr(m, node, prev, key) ==
    IF node = NULL THEN [node |-> NULL, prev |-> prev]
    ELSE IF lsml_string_eq(StrBytes(m, m[node].str), key)
         THEN [node |-> node, prev |-> prev]
    ELSE ChainFindStr(m, m[node].next, node, key)

lsml_hm_get_node(m, buckets_cha_header, n_chunks, key) ==
    IF buckets_cha_header = NULL THEN NULL
    ELSE With(n_chunks * LSML_CHUNK_LEN, LAMBDA cap :
         With(HashIndex(lsml_hash_string(key), cap), LAMBDA index :
         With(lsml_cha_get_bucket(m, buckets_cha_header, n_chunks, index), LAMBDA addr :
             IF addr.chunk = NULL THEN NULL
             ELSE ChainFindStr(m, m[addr.chunk].elems[addr.i], NULL, key).node)))

lsml_hm_get_node_reg(m, buckets_cha_header, n_chunks, key) ==
    IF buckets_cha_header = NULL \/ key = NULL THEN NULL
    ELSE With(n_chunks * LSML_CHUNK_LEN, LAMBDA cap :
         With(HashIndex(lsml_hash_string(StrBytes(m, key)), cap), LAMBDA index :
         With(lsml_cha_get_bucket(m, buckets_cha_header, n_chunks, index), LAMBDA addr :
             IF addr.chunk = NULL THEN NULL
             ELSE ChainFindReg(m, m[addr.chunk].elems[addr.i], NULL, key).node)))

\* Links node as the successor of prev, or as the head of the bucket.
LinkNode(m, bucket, prev, node) ==
    IF prev # NULL THEN [m EXCEPT ![prev].next = node]
    ELSE [m EXCEPT ![bucket.chunk].elems[bucket.i] = node]

\* zero is the memset-to-zero image of the node type that is created.
\* was_created keeps the caller's initial 0 when the allocation fails.
lsml_hm_get_or_create_node(a, m, buckets_cha_header, n_elems, n_chunks, key, zero) ==
    With(n_chunks * LSML_CHUNK_LEN, LAMBDA cap :
    With(HashIndex(m[key].hash, cap), LAMBDA index :
    With(lsml_cha_get_bucket(m, buckets_cha_header, n_chunks, index), LAMBDA bucket_ptr :
    With(ChainFindReg(m, m[bucket_ptr.chunk].elems[bucket_ptr.i], NULL, key), LAMBDA f :
    With(lsml_bump_alloc(a, zero.sz, AlignStruct), LAMBDA al :
        IF f.node # NULL
        THEN [alloc |-> a, mem |-> m, n_elems |-> n_elems, node |-> f.node,
              was_created |-> FALSE]
        ELSE IF al.ptr = NULL
        THEN [alloc |-> a, mem |-> m, n_elems |-> n_elems, node |-> NULL,
              was_created |-> FALSE]
        ELSE [alloc |-> al.alloc,
              mem |-> LinkNode(Store(m, al.ptr, [zero EXCEPT !.str = key]),
                               bucket_ptr, f.prev, al.ptr),
              n_elems |-> n_elems + 1, node |-> al.ptr, was_created |-> TRUE])))))

\* The last node of a chain, prev if the chain is empty.
RECURSIVE ChainLast(_, _, _)
ChainLast(m, curnode, prevnode) ==
    IF curnode = NULL THEN prevnode ELSE ChainLast(m, m[curnode].next, curnode)

\* Appends node at the end of the chain of bucket index (rehash only).
lsml_hm_put_node_internal(m, buckets_cha_header, n_chunks, node, index) ==
    With(lsml_cha_get_bucket(m, buckets_cha_header, n_chunks, index), LAMBDA bucket_ptr :
    With(ChainLast(m, m[bucket_ptr.chunk].elems[bucket_ptr.i], NULL), LAMBDA prevnode :
        IF bucket_ptr.chunk = NULL THEN m
        ELSE [LinkNode(m, bucket_ptr, prevnode, node) EXCEPT ![node].next = NULL]))

\* Appends todo new bucket chunks after cha; stops at the first failed
\* allocation, leaving the chunks linked so far in place.
RECURSIVE RehashGrow(_, _, _, _)
RehashGrow(a, m, cha, todo) ==
    IF todo = 0 THEN [alloc |-> a, mem |-> m, cha |-> cha, ok |-> TRUE]
    ELSE With(lsml_bump_alloc(a, SizeofChunk, AlignStruct), LAMBDA al :
             IF al.ptr = NULL
             THEN [alloc |-> a, mem |-> m, cha |-> cha, ok |-> FALSE]
             ELSE RehashGrow(al.alloc,
                             [Store(m, al.ptr, EmptyChunk) EXCEPT ![cha].next = al.ptr],
                             al.ptr, todo - 1))

NewIndexStale(hash, old_cap) == HashIndex(hash, old_cap)

\* `newindex = lsml_mod_chunklen(hash, new_cap)` with new_cap = 2*old_cap.
NewIndex(hash, old_cap) == HashIndex(hash, 2 * old_cap)

\* Relocates the nodes of one chain whose bucket index changed.
RECURSIVE RehashChain(_, _, _, _, _, _, _, _)
RehashChain(m, head, cha, chunk_index, curnode, prevnode, old_cap, new_n_chunks) ==
    IF curnode = NULL THEN m
    ELSE With(m[curnode].next, LAMBDA nextnode :
         With(m[m[curnode].str].hash, LAMBDA hash :
         With(HashIndex(hash, old_cap), LAMBDA oldindex :
         With(NewIndex(hash, old_cap), LAMBDA newindex :
         With(IF prevnode # NULL
              THEN [m EXCEPT ![prevnode].next = nextnode]
              ELSE [m EXCEPT ![cha].elems[chunk_index] = nextnode], LAMBDA unlinked :
             IF oldindex = newindex
             THEN RehashChain(m, head, cha, chunk_index, nextnode, curnode,
                              old_cap, new_n_chunks)
             ELSE RehashChain(
                      lsml_hm_put_node_internal(unlinked, head, new_n_chunks,
                                                curnode, newindex),
                      head, cha, chunk_index, nextnode, prevnode,
                      old_cap, new_n_chunks))))))

RECURSIVE RehashBuckets(_, _, _, _, _, _)
RehashBuckets(m, head, cha, chunk_index, old_cap, new_n_chunks) ==
    IF chunk_index >= LSML_CHUNK_LEN THEN m
    ELSE RehashBuckets(
             RehashChain(m, head, cha, chunk_index, m[cha].elems[chunk_index],
                         NULL, old_cap, new_n_chunks),
             head, cha, chunk_index + 1, old_cap, new_n_chunks)

\* Walks the head chunk and no other.
RehashHeadChunk(m, head, cha, old_last_cha, old_cap, new_n_chunks) ==
    IF cha = NULL THEN m
    ELSE RehashBuckets(m, head, cha, 0, old_cap, new_n_chunks)

\* Walks the original chunks only: stops after old_last_cha.
RECURSIVE RehashChunks(_, _, _, _, _, _)
RehashChunks(m, head, cha, old_last_cha, old_cap, new_n_chunks) ==
    IF cha = NULL THEN m
    ELSE With(RehashBuckets(m, head, cha, 0, old_cap, new_n_chunks), LAMBDA m1 :
             IF cha = old_last_cha THEN m1
             ELSE RehashChunks(m1, head, m1[cha].next, old_last_cha,
                               old_cap, new_n_chunks))

\* TRUE when the hashmap is within its load factor (0.8 by default).
WithinLoad(n_elems, old_cap) == (n_elems + n_elems \div 4) <= old_cap

lsml_hm_rehash_if_needed(a, m, buckets_cha_head, buckets_cha_tail, n_elems, n_chunks) ==
    With(n_chunks, LAMBDA old_n_chunks :
    With(old_n_chunks * LSML_CHUNK_LEN, LAMBDA old_cap :
    With(a.offset, LAMBDA og_offset :
    With([alloc |-> a, mem |-> m, tail |-> buckets_cha_tail,
          n_chunks |-> n_chunks, err |-> "OK"], LAMBDA same :
        IF n_chunks = 0 THEN same
        ELSE IF WithinLoad(n_elems, old_cap) THEN same
        ELSE With(RehashGrow(a, m, buckets_cha_tail, old_n_chunks), LAMBDA g :
            IF ~g.ok
            THEN [alloc |-> [g.alloc EXCEPT !.offset = og_offset], mem |-> g.mem,
                  tail |-> buckets_cha_tail, n_chunks |-> n_chunks,
                  err |-> "OUT_OF_MEMORY"]
            ELSE [alloc |-> g.alloc,
                  mem |-> RehashChunks(g.mem, buckets_cha_head, buckets_cha_head,
                                       buckets_cha_tail, old_cap, 2 * old_n_chunks),
                  tail |-> g.cha, n_chunks |-> 2 * old_n_chunks, err |-> "OK"])))))

\* --------------------------------------------------------------- document

\* The state after lsml_data_new(buf, size), for a buffer that holds the
\* document header and the two initial bucket chunks.
lsml_data_new(size) ==
    LET a0 == lsml_bump_alloc([offset |-> 0, size |-> size], SizeofData, AlignStruct)
        a1 == lsml_bump_alloc(a0.alloc, SizeofChunk, AlignStruct)
        a2 == lsml_bump_alloc(a1.alloc, SizeofChunk, AlignStruct)
    IN  [alloc |-> a2.alloc,
         mem |-> Store(Store(<<>>, a1.ptr, EmptyChunk), a2.ptr, EmptyChunk),
         data |-> [sections_head |-> a1.ptr, sections_tail |-> a1.ptr,
                   n_sections |-> 0, n_section_chunks |-> 1,
                   strings_head |-> a2.ptr, strings_tail |-> a2.ptr,
                   n_strings |-> 0, n_strings_chunks |-> 1]]

\* Offset 0 holds the lsml_data_t itself, so NULL (0) is no section's address.
lsml_data_owns_ptr(s, ptr) == ptr # NULL /\ ptr < s.alloc.size

\* History only: the handle a registration returned for the bytes b.
Returned(s, reg, b) == [s EXCEPT !.hist.regs = @ \cup {[h |-> reg, b |-> b]}]

\* string is [ptr, b]: ptr is where the bytes b lie in the buffer, NULL for
\* the caller's own memory.  Returns the state, the error and the handle.
lsml_data_register_string(s, string, string_len, move_string) ==
    With(lsml_string_init(string.b, string_len), LAMBDA str :
    With(lsml_hash_string(str), LAMBDA hash :
    With(HashIndex(hash, s.data.n_strings_chunks * LSML_CHUNK_LEN), LAMBDA index :
    With(lsml_cha_get_bucket(s.mem, s.data.strings_head,
                             s.data.n_strings_chunks, index), LAMBDA bucket_ptr :
    With(ChainFindStr(s.mem, s.mem[bucket_ptr.chunk].elems[bucket_ptr.i], NULL, str),
         LAMBDA f :
    With(s.alloc.offset, LAMBDA og_offset :
    With(lsml_bump_alloc(s.alloc, SizeofHmNode, AlignStruct), LAMBDA node :
    With(lsml_bump_alloc(node.alloc, SizeofRegStr, AlignStruct), LAMBDA reg :
    With(lsml_bump_alloc(reg.alloc, Len(str) + 1, AlignChar), LAMBDA buf :
    \* reg->hash is written before the remaining steps can fail
    With(Store(s.mem, reg.ptr,
               [t |-> "regstr", sz |-> SizeofRegStr, str |-> NULL,
                len |-> 0, hash |-> hash]), LAMBDA half :
    With([s EXCEPT !.alloc.offset = og_offset, !.mem = half,
             !.hist.low = Lower(@, og_offset)], LAMBDA rolled :
    LET Install(a, m, bytes) ==
            LET m1 == Store(m, reg.ptr,
                            [t |-> "regstr", sz |-> SizeofRegStr, str |-> bytes,
                             len |-> Len(str), hash |-> hash])
                m2 == Store(m1, node.ptr,
                            [t |-> "hmnode", sz |-> SizeofHmNode, next |-> NULL,
                             str |-> reg.ptr])
                m3 == LinkNode(m2, bucket_ptr, f.prev, node.ptr)
            IN  [s |-> Returned([s EXCEPT !.alloc = a, !.mem = m3,
                                          !.data.n_strings = @ + 1], reg.ptr, str),
                 err |-> "OK", reg |-> reg.ptr]
    IN  IF f.node # NULL
        THEN [s |-> Returned(s, s.mem[f.node].str, str), err |-> "OK",
              reg |-> s.mem[f.node].str]
        ELSE IF node.ptr = NULL
        THEN [s |-> s, err |-> "OUT_OF_MEMORY", reg |-> NULL]
        ELSE IF reg.ptr = NULL
        THEN [s |-> [s EXCEPT !.alloc.offset = og_offset,
                              !.hist.low = Lower(@, og_offset)],
              err |-> "OUT_OF_MEMORY", reg |-> NULL]
        ELSE IF move_string
        THEN IF string.b[Len(str) + 1] # 0
             THEN [s |-> [s EXCEPT !.alloc = reg.alloc, !.mem = half],
                   err |-> "INVALID_KEY", reg |-> NULL]
             ELSE Install(reg.alloc, s.mem, string.ptr)
        ELSE IF buf.ptr = NULL
        THEN [s |-> rolled, err |-> "OUT_OF_MEMORY", reg |-> NULL]
        ELSE Install(buf.alloc,
                     Store(s.mem, buf.ptr,
                           [t |-> "bytes", sz |-> Len(str) + 1, b |-> str \o <<0>>]),
                     buf.ptr))))))))))))

ZeroSection ==
    [t |-> "section", sz |-> SizeofSection, next |-> NULL, str |-> NULL,
     section |-> NULL, last_chunk |-> NULL, n_elems |-> 0, n_chunks |-> 0,
     row_indices |-> NULL, last_row_index |-> NULL]

ZeroTableNode ==
    [t |-> "tnode", sz |-> SizeofTableNode, next |-> NULL, str |-> NULL,
     value |-> NULL]

\* History only: the section the document made under a name.
Made(s, section, section_type) ==
    [s EXCEPT !.hist.made = @ \cup {[ptr |-> section, type |-> section_type,
                                     name |-> StrBytes(s.mem, s.mem[section].str)]}]

lsml_data_add_section_internal(s, section_name, section_type) ==
    With(lsml_hm_rehash_if_needed(s.alloc, s.mem, s.data.sections_head,
                                  s.data.sections_tail, s.data.n_sections,
                                  s.data.n_section_chunks), LAMBDA rh :
    With([s EXCEPT !.alloc = rh.alloc, !.mem = rh.mem,
                   !.data.sections_tail = rh.tail,
                   !.data.n_section_chunks = rh.n_chunks,
                   !.hist.low = Lower(@, rh.alloc.offset)], LAMBDA s1 :
    With(lsml_hm_get_or_create_node(s1.alloc, s1.mem, s1.data.sections_head,
                                    s1.data.n_sections, s1.data.n_section_chunks,
                                    section_name, ZeroSection), LAMBDA c :
    With([s1 EXCEPT !.alloc = c.alloc, !.mem = c.mem,
                    !.data.n_sections = c.n_elems], LAMBDA s2 :
    With(lsml_bump_alloc(s2.alloc, SizeofRowsIndex, AlignStruct), LAMBDA row :
        IF rh.err # "OK" THEN [s |-> s1, err |-> rh.err, section |-> NULL]
        ELSE IF ~c.was_created
        THEN [s |-> s2, err |-> "SECTION_NAME_REUSED", section |-> NULL]
        ELSE IF c.node = NULL
        THEN [s |-> s2, err |-> "OUT_OF_MEMORY", section |-> NULL]
        ELSE IF section_type = LSML_ARRAY
        THEN IF row.ptr = NULL
             THEN [s |-> s2, err |-> "OUT_OF_MEMORY", section |-> NULL]
             ELSE [s |-> Made([s2 EXCEPT
                                 !.alloc = row.alloc,
                                 !.mem = [Store(s2.mem, row.ptr,
                                                [t |-> "row", sz |-> SizeofRowsIndex,
                                                 next |-> NULL, index |-> 0])
                                          EXCEPT ![c.node].row_indices = row.ptr,
                                                 ![c.node].last_row_index = row.ptr]],
                              c.node, section_type),
                   err |-> "OK", section |-> c.node]
        ELSE [s |-> Made(s2, c.node, section_type), err |-> "OK",
              section |-> c.node])))))

\* Allocates the first chunk of a table or an array section if it has none.
FirstChunk(s, sec) ==
    With(lsml_bump_alloc(s.alloc, SizeofChunk, AlignStruct), LAMBDA al :
        IF s.mem[sec].section # NULL THEN [s |-> s, ok |-> TRUE]
        ELSE IF al.ptr = NULL THEN [s |-> s, ok |-> FALSE]
        ELSE [s |-> [s EXCEPT !.alloc = al.alloc,
                              !.mem = [Store(s.mem, al.ptr, EmptyChunk) EXCEPT
                                         ![sec].section = al.ptr,
                                         ![sec].n_chunks = 1,
                                         ![sec].last_chunk = al.ptr]],
              ok |-> TRUE])

lsml_table_add_entry_internal(s, table, key, value) ==
    With(FirstChunk(s, table), LAMBDA fc :
    With(fc.s, LAMBDA s0 :
    With(s0.mem[table], LAMBDA t0 :
    With(lsml_hm_rehash_if_needed(s0.alloc, s0.mem, t0.section, t0.last_chunk,
                                  t0.n_elems, t0.n_chunks), LAMBDA rh :
    With([s0 EXCEPT !.alloc = rh.alloc,
                    !.mem = [rh.mem EXCEPT ![table].last_chunk = rh.tail,
                                           ![table].n_chunks = rh.n_chunks],
                    !.hist.low = Lower(@, rh.alloc.offset)],
         LAMBDA s1 :
    With(s1.mem[table], LAMBDA t1 :
    With(lsml_hm_get_or_create_node(s1.alloc, s1.mem, t1.section, t1.n_elems,
                                    t1.n_chunks, key, ZeroTableNode), LAMBDA c :
    With([s1 EXCEPT !.alloc = c.alloc,
                    !.mem = [c.mem EXCEPT ![table].n_elems = c.n_elems]], LAMBDA s2 :
        IF table = NULL THEN [s |-> s, err |-> "INVALID_SECTION"]
        ELSE IF s.mem[table].row_indices # NULL THEN [s |-> s, err |-> "SECTION_TYPE"]
        ELSE IF ~fc.ok THEN [s |-> s0, err |-> "OUT_OF_MEMORY"]
        ELSE IF rh.err # "OK" THEN [s |-> s1, err |-> rh.err]
        ELSE IF c.node = NULL THEN [s |-> s2, err |-> "OUT_OF_MEMORY"]
        ELSE IF ~c.was_created THEN [s |-> s2, err |-> "TABLE_KEY_REUSED"]
        ELSE [s |-> [s2 EXCEPT !.mem[c.node].value = value], err |-> "OK"]))))))))

ArrayFullLate(n_elems, n_chunks) == n_elems > n_chunks * LSML_CHUNK_LEN

\* `array->n_elems >= (array->n_chunks*LSML_CHUNK_LEN)`: a chunk is appended.
ArrayFull(n_elems, n_chunks) == n_elems >= n_chunks * LSML_CHUNK_LEN

StartsRowAlways(newrow, n_elems) == newrow

\* `newrow && array->n_elems > 0`: a row start is recorded.
StartsRow(newrow, n_elems) == newrow /\ n_elems > 0

\* value is the lsml_string_t* stored in the array: the address of the
\* registered string (its first member).
lsml_array_add_entry_internal(s, array, value, newrow) ==
    With(FirstChunk(s, array), LAMBDA fc :
    With(fc.s, LAMBDA s0 :
    With(s0.mem[array], LAMBDA a0 :
    With(lsml_bump_alloc(s0.alloc, SizeofChunk, AlignStruct), LAMBDA cha_new :
    With(ArrayFull(a0.n_elems, a0.n_chunks), LAMBDA full :
    With(IF ~full THEN s0
         ELSE [s0 EXCEPT
                 !.alloc = cha_new.alloc,
                 !.mem = [Store(s0.mem, cha_new.ptr, EmptyChunk) EXCEPT
                            ![a0.last_chunk].next = cha_new.ptr,
                            ![array].last_chunk = cha_new.ptr,
                            ![array].n_chunks = @ + 1]], LAMBDA s1 :
    With(s1.mem[array], LAMBDA a1 :
    With(lsml_mod_chunklen(a1.n_elems, LSML_CHUNK_LEN), LAMBDA chunk_index :
    With([s1 EXCEPT !.mem[a1.last_chunk].elems[chunk_index] = value], LAMBDA s2 :
    With(lsml_bump_alloc(s2.alloc, SizeofRowsIndex, AlignStruct), LAMBDA new_row_index :
    With([s2 EXCEPT
            !.alloc = new_row_index.alloc,
            !.mem = [Store(s2.mem, new_row_index.ptr,
                           [t |-> "row", sz |-> SizeofRowsIndex,
                            next |-> NULL, index |-> a1.n_elems])
                     EXCEPT ![a1.last_row_index].next = new_row_index.ptr,
                            ![array].last_row_index = new_row_index.ptr]], LAMBDA s3 :
    LET Done(sx) == [s |-> [sx EXCEPT !.mem[array].n_elems = @ + 1], err |-> "OK"]
    IN  IF array = NULL THEN [s |-> s, err |-> "INVALID_SECTION"]
        ELSE IF s.mem[array].row_indices = NULL THEN [s |-> s, err |-> "SECTION_TYPE"]
        ELSE IF ~fc.ok THEN [s |-> s0, err |-> "OUT_OF_MEMORY"]
        ELSE IF full /\ cha_new.ptr = NULL THEN [s |-> s0, err |-> "OUT_OF_MEMORY"]
        ELSE IF StartsRow(newrow, a1.n_elems)
        THEN IF new_row_index.ptr = NULL
             THEN [s |-> s2, err |-> "OUT_OF_MEMORY"]
             ELSE Done(s3)
        ELSE Done(s2))))))))))))

\* ---------------------------------------------------------------- sections

\* `section->row_indices != NULL ? LSML_ARRAY : LSML_TABLE`
SectionType(m, section) ==
    IF m[section].row_indices # NULL THEN LSML_ARRAY ELSE LSML_TABLE

\* section_found is NULL where the caller's pointer is left unwritten.
lsml_data_get_section(s, desired_type, name, name_len) ==
    With(lsml_string_init(name, name_len), LAMBDA section_name :
    With(lsml_hm_get_node(s.mem, s.data.sections_head,
                          s.data.n_section_chunks, section_name), LAMBDA section :
    With(SectionType(s.mem, section), LAMBDA type :
        IF section = NULL
        THEN [err |-> "NOT_FOUND", section_found |-> NULL, section_type |-> "none"]
        ELSE IF desired_type # LSML_ANYSECTION /\ desired_type # type
        THEN [err |-> "SECTION_TYPE", section_found |-> NULL, section_type |-> type]
        ELSE [err |-> "OK", section_found |-> section, section_type |-> type])))

lsml_data_add_section(s, desired_type, name, name_len) ==
    With(lsml_string_init(name, name_len), LAMBDA string :
    With(lsml_data_register_string(s, [ptr |-> NULL, b |-> name], name_len, FALSE),
         LAMBDA r :
    With(lsml_hm_rehash_if_needed(r.s.alloc, r.s.mem, r.s.data.strings_head,
                                  r.s.data.strings_tail, r.s.data.n_strings,
                                  r.s.data.n_strings_chunks), LAMBDA rh :
    With([r.s EXCEPT !.alloc = rh.alloc, !.mem = rh.mem,
                     !.data.strings_tail = rh.tail,
                     !.data.n_strings_chunks = rh.n_chunks,
                     !.hist.low = Lower(@, rh.alloc.offset)], LAMBDA s1 :
        IF Len(string) = 0 THEN [s |-> s, err |-> "INVALID_KEY", section |-> NULL]
        ELSE IF r.err # "OK" THEN [s |-> r.s, err |-> r.err, section |-> NULL]
        ELSE IF rh.err # "OK" THEN [s |-> s1, err |-> rh.err, section |-> NULL]
        ELSE lsml_data_add_section_internal(s1, r.reg, desired_type)))))

\* lsml_data_clear: `data->alloc.offset = data_offset + sizeof(lsml_data_t)`,
\* with the document at offset 0 of its buffer; nothing else is written.
lsml_data_clear(s) == [s EXCEPT !.alloc.offset = SizeofData]

lsml_section_len(s, section) == IF section = NULL THEN 0 ELSE s.mem[section].n_elems

\* ------------------------------------------------------------------ tables

lsml_table_get(s, table, key_name, key_len) ==
    With(lsml_string_init(key_name, key_len), LAMBDA key :
    With(lsml_hm_get_node(s.mem, s.mem[table].section, s.mem[table].n_chunks, key),
         LAMBDA node :
        IF table = NULL THEN [err |-> "INVALID_SECTION", value |-> <<>>]
        ELSE IF s.mem[table].row_indices # NULL
        THEN [err |-> "SECTION_TYPE", value |-> <<>>]
        ELSE IF node = NULL THEN [err |-> "NOT_FOUND", value |-> <<>>]
        ELSE [err |-> "OK", value |-> StrBytes(s.mem, s.mem[node].value)]))

lsml_table_add_entry(s, table, key_name, key_len, value, value_len) ==
    With(lsml_string_init(key_name, key_len), LAMBDA key_str :
    With(lsml_data_register_string(s, [ptr |-> NULL, b |-> key_name],
                                   Len(key_str), FALSE), LAMBDA k :
    With(lsml_data_register_string(k.s, [ptr |-> NULL, b |-> value],
                                   value_len, FALSE), LAMBDA v :
        IF ~lsml_data_owns_ptr(s, table) THEN [s |-> s, err |-> "INVALID_SECTION"]
        ELSE IF Len(key_str) = 0 THEN [s |-> s, err |-> "INVALID_KEY"]
        ELSE IF k.err # "OK" THEN [s |-> k.s, err |-> k.err]
        ELSE IF lsml_hm_get_node_reg(k.s.mem, k.s.mem[table].section,
                                     k.s.mem[table].n_chunks, k.reg) # NULL
        THEN [s |-> k.s, err |-> "TABLE_KEY_REUSED"]
        ELSE IF v.err # "OK" THEN [s |-> v.s, err |-> v.err]
        ELSE lsml_table_add_entry_internal(v.s, table, k.reg, v.reg))))

\* ------------------------------------------------- iterating over a map

\* The address p holds an object of the type t the iterator reads it as.
Is(m, p, t) == p \in DOMAIN m /\ m[p].t = t

\* `while (iter->elem == NULL)`: on to the next bucket, and to the next chunk
\* after the last bucket of one.  wild is TRUE when the chunk or the node
\* the iterator was led to is not one: the memory was handed out again.
RECURSIVE NextBucket(_, _, _)
NextBucket(m, iter, t) ==
    IF iter.elem # NULL
    THEN [iter |-> iter, ret |-> 1, wild |-> ~Is(m, iter.elem, t)]
    ELSE IF iter.index + 1 >= LSML_CHUNK_LEN
    THEN With(m[iter.chunk].next, LAMBDA next_chunk :
             IF next_chunk = NULL
             THEN [iter |-> [iter EXCEPT !.index = LSML_CHUNK_LEN], ret |-> 0,
                   wild |-> FALSE]
             ELSE IF ~Is(m, next_chunk, "chunk")
             THEN [iter |-> [chunk |-> next_chunk, elem |-> NULL, index |-> 0],
                   ret |-> 1, wild |-> TRUE]
             ELSE NextBucket(m, [chunk |-> next_chunk,
                                 elem |-> m[next_chunk].elems[0], index |-> 0], t))
    ELSE NextBucket(m, [iter EXCEPT !.index = @ + 1,
                                    !.elem = m[iter.chunk].elems[iter.index + 1]], t)

\* An iterator that leaves the chain it stands in for the next bucket.
HmNextBucketOnly(m, head, iter, t) ==
    NextBucket(m, IF iter.chunk = NULL
                  THEN [chunk |-> head, elem |-> m[head].elems[0], index |-> 0]
                  ELSE [iter EXCEPT !.elem = NULL], t)

\* The body shared by lsml_table_next and lsml_data_next_section: a zeroed
\* iterator starts at the first bucket of the head chunk, any other goes on
\* from the node it stands on.
HmNext(m, head, iter, t) ==
    NextBucket(m, IF iter.chunk = NULL
                  THEN [chunk |-> head, elem |-> m[head].elems[0], index |-> 0]
                  ELSE IF iter.elem # NULL
                  THEN [iter EXCEPT !.elem = m[iter.elem].next]
                  ELSE iter, t)

\* Returns the iterator after the call, the return value and, when it is 1,
\* the node the key and the value are read from.
lsml_table_next(s, table, iter) ==
    IF table = NULL THEN [iter |-> iter, ret |-> 0, wild |-> FALSE]
    ELSE IF s.mem[table].section = NULL \/ s.mem[table].row_indices # NULL
    THEN [iter |-> iter, ret |-> 0, wild |-> FALSE]
    ELSE HmNext(s.mem, s.mem[table].section, iter, "tnode")

\* Returns the iterator after the call, the return value and, when it is 1,
\* the section in iter.elem.
lsml_data_next_section(s, iter) ==
    HmNext(s.mem, s.data.sections_head, iter, "section")

\* ------------------------------------------------------------------ arrays

ColsAlways(is_jagged, cur_cols, c) == cur_cols > c

\* `is_jagged ? (cur_cols > c) : (cur_cols < c)`
ColsBetter(is_jagged, cur_cols, c) ==
    IF is_jagged THEN cur_cols > c ELSE cur_cols < c

RECURSIVE SizeLoop(_, _, _, _, _, _)
SizeLoop(m, n_elems, is_jagged, row_index, r, c) ==
    IF row_index = NULL THEN [rows |-> r, cols |-> c]
    ELSE With(m[row_index].next, LAMBDA next_row_index :
         With(IF next_row_index # NULL
              THEN m[next_row_index].index - m[row_index].index
              ELSE n_elems - m[row_index].index, LAMBDA cur_cols :
             SizeLoop(m, n_elems, is_jagged, next_row_index, r + 1,
                      IF ColsBetter(is_jagged, cur_cols, c) THEN cur_cols ELSE c)))

lsml_array_2d_size(s, array, is_jagged) ==
    IF array = NULL THEN [err |-> "INVALID_SECTION", rows |-> 0, cols |-> 0]
    ELSE IF s.mem[array].row_indices = NULL
    THEN [err |-> "SECTION_TYPE", rows |-> 0, cols |-> 0]
    ELSE With(SizeLoop(s.mem, s.mem[array].n_elems, is_jagged,
                       s.mem[array].row_indices, 0,
                       IF is_jagged THEN 0 ELSE s.mem[array].n_elems), LAMBDA sz :
             [err |-> "OK", rows |-> sz.rows, cols |-> sz.cols])

\* `if (value) *value = *elem; return LSML_OK;`: the outcomes of reading
\* through elem.  Reading through NULL is undefined: the call faults, or it
\* returns LSML_OK with whatever the read produced.
Garbage == <<-1>>

DerefElem(m, elem, want_value) ==
    IF ~want_value THEN {[err |-> "OK", value |-> <<>>]}
    ELSE IF elem = NULL
    THEN {[err |-> "FAULT", value |-> <<>>], [err |-> "OK", value |-> Garbage]}
    ELSE {[err |-> "OK", value |-> StrBytes(m, elem)]}

\* The set of possible outcomes; want_value is `value != NULL`.
lsml_array_get(s, array, index, want_value) ==
    IF array = NULL THEN {[err |-> "INVALID_SECTION", value |-> <<>>]}
    ELSE IF s.mem[array].row_indices = NULL
    THEN {[err |-> "SECTION_TYPE", value |-> <<>>]}
    ELSE DerefElem(s.mem,
                   lsml_cha_get(s.mem, s.mem[array].section, s.mem[array].n_elems,
                                s.mem[array].n_chunks, index),
                   want_value)

\* `while (row) { row_index = row_index->next; ... row--; }`
RECURSIVE RowWalk(_, _, _)
RowWalk(m, row_index, row) ==
    IF row = 0 THEN row_index
    ELSE IF m[row_index].next = NULL THEN NULL
    ELSE RowWalk(m, m[row_index].next, row - 1)

lsml_array_get_2d(s, array, row, col, want_value) ==
    IF array = NULL THEN {[err |-> "INVALID_SECTION", value |-> <<>>]}
    ELSE IF s.mem[array].row_indices = NULL
    THEN {[err |-> "SECTION_TYPE", value |-> <<>>]}
    ELSE With(s.mem, LAMBDA m :
         With(RowWalk(m, m[array].row_indices, row), LAMBDA row_index :
         With(col + m[row_index].index, LAMBDA abs :
             IF row_index = NULL THEN {[err |-> "NOT_FOUND", value |-> <<>>]}
             ELSE IF m[row_index].next # NULL /\ abs >= m[m[row_index].next].index
             THEN {[err |-> "NOT_FOUND", value |-> <<>>]}
             ELSE DerefElem(m,
                            lsml_cha_get(m, m[array].section, m[array].n_elems,
                                         m[array].n_chunks, abs),
                            want_value))))

lsml_array_push(s, array, val, val_len, newrow) ==
    With(lsml_data_register_string(s, [ptr |-> NULL, b |-> val], val_len, FALSE),
         LAMBDA r :
        IF ~lsml_data_owns_ptr(s, array) THEN [s |-> s, err |-> "INVALID_SECTION"]
        ELSE IF s.mem[array].row_indices = NULL THEN [s |-> s, err |-> "SECTION_TYPE"]
        ELSE IF r.err # "OK" THEN [s |-> r.s, err |-> r.err]
        ELSE lsml_array_add_entry_internal(r.s, array, r.reg, newrow))

ZeroIter == [chunk |-> NULL, elem |-> NULL, index |-> 0]

\* Returns the iterator after the call, the return value and, when it is 1,
\* the value written.
lsml_array_next(s, array, iter) ==
    With(s.mem, LAMBDA m :
    With(iter.index + 1, LAMBDA index :
    With(lsml_mod_chunklen(index, LSML_CHUNK_LEN), LAMBDA index_wrapped :
    With(m[iter.chunk].next, LAMBDA next_chunk :
    With(IF index_wrapped = 0 THEN next_chunk ELSE iter.chunk, LAMBDA chunk :
    LET stop(it) == [iter |-> it, ret |-> 0, value |-> <<>>]
        yield(it) == IF it.index >= m[array].n_elems THEN stop(it)
                     ELSE [iter |-> it, ret |-> 1, value |-> StrBytes(m, it.elem)]
    IN  IF array = NULL \/ m[array].section = NULL \/ m[array].row_indices = NULL
        THEN stop(iter)
        ELSE IF iter.chunk = NULL
        THEN yield([chunk |-> m[array].section,
                    elem |-> m[m[array].section].elems[0], index |-> 0])
        ELSE IF index_wrapped = 0 /\ next_chunk = NULL
        THEN stop([iter EXCEPT !.index = index - 1])
        ELSE yield([chunk |-> chunk, elem |-> m[chunk].elems[index_wrapped],
                    index |-> index]))))))

AtRowStartLate(m, next_row, index) ==
    next_row # NULL /\ index = m[next_row].index + 1

\* `iter->elem && iter->index == ((lsml_rows_index_t*)iter->elem)->index`
AtRowStart(m, next_row, index) ==
    next_row # NULL /\ index = m[next_row].index

\* iter.elem holds the next row-start record; string is the element read.
\* row and col are the caller's variables, read and written through pointers.
lsml_array_next_2d(s, array, iter, row, col) ==
    With(s.mem, LAMBDA m :
    With(iter.index + 1, LAMBDA index :
    With(lsml_mod_chunklen(index, LSML_CHUNK_LEN), LAMBDA index_wrapped :
    With(m[iter.chunk].next, LAMBDA next_chunk :
    With(IF index_wrapped = 0 THEN next_chunk ELSE iter.chunk, LAMBDA chunk :
    With(AtRowStart(m, iter.elem, index), LAMBDA at_row_start :
    LET stop(it, r, c) == [iter |-> it, ret |-> 0, value |-> <<>>, row |-> r, col |-> c]
        yield(it, string, r, c) ==
            IF it.index >= m[array].n_elems THEN stop(it, r, c)
            ELSE [iter |-> it, ret |-> 1, value |-> StrBytes(m, string),
                  row |-> r, col |-> c]
    IN  IF array = NULL \/ m[array].section = NULL \/ m[array].row_indices = NULL
        THEN stop(iter, row, col)
        ELSE IF iter.chunk = NULL
        THEN yield([chunk |-> m[array].section,
                    elem |-> m[m[array].row_indices].next, index |-> 0],
                   m[m[array].section].elems[0], 0, 0)
        ELSE IF index_wrapped = 0 /\ next_chunk = NULL
        THEN stop([iter EXCEPT !.index = index - 1], row, col)
        ELSE IF at_row_start
        THEN yield([chunk |-> chunk, elem |-> m[iter.elem].next, index |-> index],
                   m[chunk].elems[index_wrapped], row + 1, 0)
        ELSE yield([chunk |-> chunk, elem |-> iter.elem, index |-> index],
                   m[chunk].elems[index_wrapped], row, col + 1)))))))

\* `while(lsml_array_next(array, &array_iter, value))` with value == NULL,
\* which lsml_array_next does not write through: every
\* `values[i - start_index] = *value` reads through NULL.  reads counts
\* those reads, values is the caller's array if each read produced
\* something.
RECURSIVE GetManyLoop(_, _, _, _, _, _, _, _)
GetManyLoop(s, array, array_iter, i, start_index, n, values, reads) ==
    With(lsml_array_next(s, array, array_iter), LAMBDA r :
        IF r.ret = 0 THEN [values |-> values, reads |-> reads]
        ELSE IF i >= start_index /\ i < n
        THEN GetManyLoop(s, array, r.iter, i + 1, start_index, n,
                         [values EXCEPT ![i - start_index + 1] = Garbage], reads + 1)
        ELSE GetManyLoop(s, array, r.iter, i + 1, start_index, n, values, reads))

\* The set of possible outcomes; values is the caller's array before the
\* call.  Reading through NULL is undefined: the call faults, or it goes on
\* with whatever the read produced.
lsml_array_get_many(s, array, start_index, n_elems, values) ==
    IF array = NULL THEN {[err |-> "INVALID_SECTION", values |-> values]}
    ELSE IF s.mem[array].row_indices = NULL
    THEN {[err |-> "SECTION_TYPE", values |-> values]}
    ELSE IF start_index >= s.mem[array].n_elems
            \/ start_index + n_elems > s.mem[array].n_elems
    THEN {[err |-> "NOT_FOUND", values |-> values]}
    ELSE With(GetManyLoop(s, array, ZeroIter, 0, start_index,
                          start_index + n_elems, values, 0), LAMBDA w :
             IF w.reads = 0 THEN {[err |-> "OK", values |-> w.values]}
             ELSE {[err |-> "FAULT", values |-> values],
                   [err |-> "OK", values |-> w.values]})

\* Calls lsml_array_next from a zeroed iterator until it returns 0; calls
\* counts the calls made.  more is TRUE if it had not returned 0 after
\* fuel calls.
RECURSIVE IterateArray(_, _, _, _, _)
IterateArray(s, array, iter, items, fuel) ==
    With(lsml_array_next(s, array, iter), LAMBDA r :
        IF fuel = 0 THEN [items |-> items, more |-> TRUE]
        ELSE IF r.ret = 0 THEN [items |-> items, more |-> FALSE]
        ELSE IterateArray(s, array, r.iter, Append(items, r.value), fuel - 1))

RECURSIVE IterateArray2d(_, _, _, _, _, _, _)
IterateArray2d(s, array, iter, row, col, items, fuel) ==
    With(lsml_array_next_2d(s, array, iter, row, col), LAMBDA r :
        IF fuel = 0 THEN [items |-> items, more |-> TRUE]
        ELSE IF r.ret = 0 THEN [items |-> items, more |-> FALSE]
        ELSE IterateArray2d(s, array, r.iter, r.row, r.col,
                            Append(items, [value |-> r.value, row |-> r.row,
                                           col |-> r.col]),
                            fuel - 1))

\* ------------------------------------------------------------------ parser

\* The characters the parser and the inputs name, with their byte values.
Ord ==
    ("\t" :> 9) @@ ("\n" :> 10) @@ ("\r" :> 13) @@ (" " :> 32) @@
    ("\"" :> 34) @@ ("#" :> 35) @@ ("'" :> 39) @@ ("+" :> 43) @@ ("," :> 44) @@
    ("-" :> 45) @@ ("." :> 46) @@ ("O" :> 79) @@ ("X" :> 88) @@ ("0" :> 48) @@
    ("1" :> 49) @@ ("2" :> 50) @@ ("3" :> 51) @@ ("4" :> 52) @@ ("5" :> 53) @@
    ("6" :> 54) @@ ("7" :> 55) @@ ("8" :> 56) @@ ("9" :> 57) @@ ("=" :> 61) @@
    ("?" :> 63) @@ ("A" :> 65) @@ ("B" :> 66) @@ ("C" :> 67) @@ ("D" :> 68) @@
    ("E" :> 69) @@ ("F" :> 70) @@ ("U" :> 85) @@ ("Z" :> 90) @@ ("[" :> 91) @@
    ("\\" :> 92) @@ ("]" :> 93) @@ ("backtick" :> 96) @@ ("a" :> 97) @@
    ("b" :> 98) @@ ("c" :> 99) @@ ("d" :> 100) @@ ("e" :> 101) @@
    ("f" :> 102) @@ ("g" :> 103) @@ ("h" :> 104) @@ ("i" :> 105) @@
    ("j" :> 106) @@ ("k" :> 107) @@ ("l" :> 108) @@ ("m" :> 109) @@
    ("n" :> 110) @@ ("o" :> 111) @@ ("p" :> 112) @@ ("q" :> 113) @@
    ("r" :> 114) @@ ("s" :> 115) @@ ("t" :> 116) @@ ("u" :> 117) @@
    ("v" :> 118) @@ ("w" :> 119) @@ ("x" :> 120) @@ ("y" :> 121) @@
    ("z" :> 122) @@ ("{" :> 123) @@ ("}" :> 125)

\* The bytes of a text written as a string.  A string cannot hold a
\* backtick; BQ is the text that is one backtick.
Bytes(text) == [i \in 1..Len(text) |-> Ord[SubSeq(text, i, i)]]

BQ == <<Ord["backtick"]>>

\* lsml_reader_from_string_getc: the next byte, negative at end of input.
lsml_getc(reader) ==
    IF reader.pos <= Len(reader.in)
    THEN [reader |-> [reader EXCEPT !.pos = @ + 1], c |-> reader.in[reader.pos]]
    ELSE [reader |-> reader, c |-> -1]

\* The lsml_parser_t over a reader, before the first character is fetched.
\* log is what the err_log callback was called with, in order; the callback
\* returns nonzero on its call number abort_at.  at is the position of cur in
\* the input (the number of calls made of the reader, less one), and starts
\* the positions at which the passes of the line loop of lsml_parse began.
\* seen is what the document held when the parser was last handed on, and
\* marks what it held at each call of the callback.
NewParser(in, log_err, abort_at) ==
    [reader |-> [in |-> in, pos |-> 1], line |-> 1, cur |-> 0, next |-> 0,
     log_err |-> log_err, abort_at |-> abort_at, log |-> <<>>,
     at |-> -1, starts |-> <<>>, seen |-> [offset |-> 0, data |-> <<>>],
     marks |-> <<>>]

\* What a document holds, as far as additions go: every addition allocates.
Holds(s) == [offset |-> s.alloc.offset, data |-> s.data]

\* The parser where the code goes on with the document s.
Seeing(parser, s) == [parser EXCEPT !.seen = Holds(s)]

\* Returns the parser and whether the user aborts the parse.
lsml_log_err(parser, errcode) ==
    IF parser.log_err /\ errcode # "OK"
    THEN [parser |-> [parser EXCEPT !.log = Append(@, [err |-> errcode,
                                                       line |-> parser.line]),
                             !.marks = Append(@, parser.seen)],
          abort |-> Len(parser.log) + 1 = parser.abort_at]
    ELSE [parser |-> parser, abort |-> FALSE]

LineAtNewline(parser) ==
    IF parser.next = Ord["\n"] THEN parser.line + 1 ELSE parser.line

\* `if (parser->cur == '\n') parser->line += 1;`: the line of the character
\* that becomes cur.
LineAfter(parser) ==
    IF parser.cur = Ord["\n"] THEN parser.line + 1 ELSE parser.line

\* The character returned is the cur of the parser returned.
lsml_nextchar(parser) ==
    With(lsml_getc(parser.reader), LAMBDA g :
        [parser EXCEPT !.line = LineAfter(parser),
                       !.cur = parser.next,
                       !.next = g.c,
                       !.reader = g.reader,
                       !.at = @ + 1])

IsSpaceOrNewline(c) == c \in {Ord[" "], Ord["\n"]}

lsml_isspace(c) == c \in {Ord[" "], Ord["\t"], Ord["\r"], Ord["\n"]}

RECURSIVE lsml_skip_whitespace(_)
lsml_skip_whitespace(parser) ==
    IF lsml_isspace(parser.cur) THEN lsml_skip_whitespace(lsml_nextchar(parser))
    ELSE parser

RECURSIVE lsml_skip_comment(_)
lsml_skip_comment(parser) ==
    IF parser.cur >= 0 /\ parser.cur # Ord["\n"]
    THEN lsml_skip_comment(lsml_nextchar(parser))
    ELSE parser

RECURSIVE SkipLineLoop(_)
SkipLineLoop(parser) ==
    IF parser.cur >= 0 /\ parser.cur # Ord["\n"]
    THEN SkipLineLoop(lsml_nextchar(parser))
    ELSE parser

\* lsml_skip_line, were it to ask for one more character at the end of the
\* input as well.
SkipLineAndOn(parser) ==
    With(SkipLineLoop(parser), LAMBDA p :
        IF p.cur = Ord["\n"] \/ p.cur < 0 THEN lsml_nextchar(p) ELSE p)

lsml_skip_line(parser) ==
    With(SkipLineLoop(parser), LAMBDA p :
        IF p.cur = Ord["\n"] THEN lsml_nextchar(p) ELSE p)

lsml_oct_append(c, val) ==
    IF c >= Ord["0"] /\ c <= Ord["7"]
    THEN [ok |-> TRUE, val |-> val * 8 + (c - Ord["0"])]
    ELSE [ok |-> FALSE, val |-> val]

\* val is a uint32_t in halves; `(*val << 4) + digit`.
U32Shl4Add(val, digit) ==
    [hi |-> (val.hi * 16 + val.lo \div 4096) % Half,
     lo |-> ((val.lo * 16) % Half) + digit]

lsml_hex_append(c, val) ==
    IF c >= Ord["0"] /\ c <= Ord["9"]
    THEN [ok |-> TRUE, val |-> U32Shl4Add(val, c - Ord["0"])]
    ELSE IF c >= Ord["A"] /\ c <= Ord["F"]
    THEN [ok |-> TRUE, val |-> U32Shl4Add(val, 10 + c - Ord["A"])]
    ELSE IF c >= Ord["a"] /\ c <= Ord["f"]
    THEN [ok |-> TRUE, val |-> U32Shl4Add(val, 10 + c - Ord["a"])]
    ELSE [ok |-> FALSE, val |-> val]

\* A temporary string under construction: it starts at offset start (the
\* arena cursor), cursor = start + n, and w holds every byte written from
\* start on.  The bytes lie in the unallocated part of the buffer.
NewTemp(start) == [start |-> start, n |-> 0, w |-> <<>>]

\* `*cursor = c; cursor++`
Write(t, c) ==
    [t EXCEPT !.w = SubSeq(@, 1, t.n) \o <<c>> \o SubSeq(@, t.n + 2, Len(@)),
              !.n = @ + 1]

RECURSIVE WriteAll(_, _)
WriteAll(t, bytes) ==
    IF bytes = <<>> THEN t ELSE WriteAll(Write(t, Head(bytes)), Tail(bytes))

\* The UTF-8 bytes of a codepoint (a uint32_t in halves); <<>> if the
\* codepoint is above 0x10FFFF.
Utf8(codepoint) ==
    With(codepoint.hi, LAMBDA hi :
    With(codepoint.lo, LAMBDA lo :
        IF hi = 0 /\ lo <= 127 THEN <<lo>>
        ELSE IF hi = 0 /\ lo <= 2047
        THEN <<192 + ((lo \div 64) % 32), 128 + (lo % 64)>>
        ELSE IF hi = 0
        THEN <<224 + ((lo \div 4096) % 16), 128 + ((lo \div 64) % 64),
               128 + (lo % 64)>>
        ELSE IF hi <= 16
        THEN <<240 + ((hi \div 4) % 8), 128 + ((hi % 4) * 16) + (lo \div 4096),
               128 + ((lo \div 64) % 64), 128 + (lo % 64)>>
        ELSE <<>>))

\* The loop over the hex digits: scratch holds the i characters parsed so
\* far; complete is FALSE if a character that is no hex digit ended it.
RECURSIVE UnicodeDigits(_, _, _, _)
UnicodeDigits(parser, scratch, codepoint, len_expect) ==
    IF Len(scratch) < len_expect
    THEN With(lsml_nextchar(parser), LAMBDA p :
         With(lsml_hex_append(p.cur, codepoint), LAMBDA h :
            IF ~h.ok
            THEN [parser |-> p, scratch |-> scratch, codepoint |-> codepoint,
                  complete |-> FALSE]
            ELSE UnicodeDigits(p, Append(scratch, p.cur), h.val, len_expect)))
    ELSE [parser |-> parser, scratch |-> scratch, codepoint |-> codepoint,
          complete |-> TRUE]

\* Expects cur = '\\' and next = 'u' or 'U'.
lsml_helper_unicode_parse(parser, t, end) ==
    With(lsml_nextchar(parser), LAMBDA p1 :
    With(IF p1.cur = Ord["U"] THEN 10 ELSE 6, LAMBDA len_expect :
    With(UnicodeDigits(p1, <<parser.cur, parser.next>>, U32From(0), len_expect),
         LAMBDA d :
    With(IF d.complete THEN lsml_nextchar(d.parser) ELSE d.parser, LAMBDA p2 :
    With(IF d.complete THEN Utf8(d.codepoint) ELSE <<>>, LAMBDA encoded :
    With(IF d.complete /\ encoded = <<>>
         THEN lsml_log_err(p2, "TEXT_INVALID_ESCAPE")
         ELSE [parser |-> p2, abort |-> FALSE], LAMBDA l :
    With(IF encoded # <<>> THEN encoded ELSE d.scratch, LAMBDA out :
        IF l.abort THEN [parser |-> l.parser, t |-> t, err |-> "PARSE_ABORTED"]
        ELSE IF t.start + t.n + Len(out) > end
        THEN [parser |-> l.parser, t |-> t, err |-> "OUT_OF_MEMORY"]
        ELSE [parser |-> l.parser, t |-> WriteAll(t, out), err |-> "OK"])))))))

\* The single-character escape sequences and the bytes they stand for.
SingleEscape ==
    (Ord["a"] :> 7) @@ (Ord["b"] :> 8) @@ (Ord["e"] :> 27) @@ (Ord["f"] :> 12) @@
    (Ord["n"] :> 10) @@ (Ord["r"] :> 13) @@ (Ord["t"] :> 9) @@ (Ord["\\"] :> 92) @@
    (Ord["'"] :> 39) @@ (Ord["\""] :> 34) @@ (Ord["backtick"] :> 96) @@ (Ord["?"] :> 63)

\* `\ooo`: up to two more octal digits after the first, clamped to 255.
OctalEscape(parser) ==
    With(lsml_nextchar(parser), LAMBDA p1 :
    With(lsml_oct_append(p1.next, parser.next - Ord["0"]), LAMBDA o1 :
    With(IF o1.ok THEN lsml_nextchar(p1) ELSE p1, LAMBDA p2 :
    With(IF o1.ok THEN lsml_oct_append(p2.next, o1.val) ELSE o1, LAMBDA o2 :
    With(IF o2.ok THEN lsml_nextchar(p2) ELSE p2, LAMBDA p3 :
        [parser |-> p3, c |-> IF o2.val > 255 THEN 255 ELSE o2.val])))))

\* `\xhh`: one or two hex digits; ok is FALSE if `\x` is followed by none.
HexEscape(parser) ==
    With(lsml_nextchar(parser), LAMBDA p1 :
    With(lsml_hex_append(p1.next, U32From(0)), LAMBDA h1 :
    With(IF h1.ok THEN lsml_nextchar(p1) ELSE p1, LAMBDA p2 :
    With(IF h1.ok THEN lsml_hex_append(p2.next, h1.val) ELSE h1, LAMBDA h2 :
    With(IF h2.ok THEN lsml_nextchar(p2) ELSE p2, LAMBDA p3 :
        [parser |-> p3, ok |-> h1.ok, c |-> h2.val.lo])))))

\* The switch on the character after a backslash, cur = '\\'.  again is TRUE
\* where the code continues the loop without writing c.
Escape(parser, t, end) ==
    With(parser.next, LAMBDA c :
        IF c \in DOMAIN SingleEscape
        THEN [parser |-> lsml_nextchar(parser), t |-> t, c |-> SingleEscape[c],
              again |-> FALSE, err |-> "OK"]
        ELSE IF c >= Ord["0"] /\ c <= Ord["7"]
        THEN With(OctalEscape(parser), LAMBDA o :
                [parser |-> o.parser, t |-> t, c |-> o.c, again |-> FALSE,
                 err |-> "OK"])
        ELSE IF c = Ord["x"]
        THEN With(HexEscape(parser), LAMBDA h :
             With(lsml_log_err(h.parser, "TEXT_INVALID_ESCAPE"), LAMBDA l :
                IF h.ok
                THEN [parser |-> h.parser, t |-> t, c |-> h.c, again |-> FALSE,
                      err |-> "OK"]
                ELSE [parser |-> l.parser, t |-> Write(t, Ord["\\"]),
                      c |-> h.parser.cur, again |-> TRUE,
                      err |-> IF l.abort THEN "PARSE_ABORTED" ELSE "OK"]))
        ELSE IF c \in {Ord["u"], Ord["U"]}
        THEN With(lsml_helper_unicode_parse(parser, t, end), LAMBDA u :
                [parser |-> u.parser, t |-> u.t, c |-> u.parser.cur,
                 again |-> TRUE,
                 err |-> IF u.err # "OK" THEN "OUT_OF_MEMORY" ELSE "OK"])
        ELSE With(lsml_log_err(parser, "TEXT_INVALID_ESCAPE"), LAMBDA l :
                [parser |-> l.parser, t |-> t, c |-> Ord["\\"], again |-> FALSE,
                 err |-> IF l.abort THEN "PARSE_ABORTED" ELSE "OK"]))

\* In the loops of lsml_parse_temp_string the local c is parser->cur whenever
\* an iteration starts, so the loops below read parser.cur.

\* The first loop: skips leading whitespace, stores a reference prefix and
\* finds the kind of string.  delim is 0 where the code goes to save_string.
RECURSIVE TempStart(_, _, _, _)
TempStart(parser, t, end, end_delim) ==
    With(parser.cur, LAMBDA c :
        IF c < 0 \/ c = Ord["\n"] \/ (end_delim # 0 /\ c = end_delim)
        THEN [parser |-> parser, t |-> t, delim |-> 0, err |-> "OK"]
        ELSE IF t.n = 0 /\ (\/ c = Ord["{"] /\ parser.next = Ord["}"]
                            \/ c = Ord["["] /\ parser.next = Ord["]"])
        THEN IF t.start + 2 > end
             THEN [parser |-> parser, t |-> t, delim |-> 0, err |-> "OUT_OF_MEMORY"]
             ELSE TempStart(lsml_nextchar(lsml_nextchar(parser)),
                            Write(Write(t, c), parser.next), end, end_delim)
        ELSE IF c = Ord["backtick"] \/ c = Ord["\""] \/ c = Ord["'"]
        THEN [parser |-> lsml_nextchar(parser), t |-> t, delim |-> c, err |-> "OK"]
        ELSE IF ~lsml_isspace(c)
        THEN [parser |-> parser, t |-> t, delim |-> Ord["\n"], err |-> "OK"]
        ELSE TempStart(lsml_nextchar(parser), t, end, end_delim))

\* `while (cursor > start && lsml_isspace(*(cursor-1))) cursor -= 1;`
RECURSIVE TrimEnd(_)
TrimEnd(t) ==
    IF t.n > 0 /\ lsml_isspace(t.w[t.n]) THEN TrimEnd([t EXCEPT !.n = @ - 1]) ELSE t

RECURSIVE TempUnquoted(_, _, _, _)
TempUnquoted(parser, t, end, end_delim) ==
    With(parser.cur, LAMBDA c :
        IF c < 0 \/ c = Ord["\n"] \/ c = Ord["#"] \/ (end_delim # 0 /\ c = end_delim)
        THEN [parser |-> IF c = Ord["#"] THEN lsml_skip_comment(parser) ELSE parser,
              t |-> TrimEnd(t), err |-> "OK"]
        ELSE IF t.start + t.n >= end
        THEN [parser |-> parser, t |-> t, err |-> "OUT_OF_MEMORY"]
        ELSE TempUnquoted(lsml_nextchar(parser), Write(t, c), end, end_delim))

\* Reports a string that ends before its closing quote.
MissingEndQuote(parser, t) ==
    With(lsml_log_err(parser, "MISSING_END_QUOTE"), LAMBDA l :
        [parser |-> l.parser, t |-> t,
         err |-> IF l.abort THEN "PARSE_ABORTED" ELSE "OK"])

RECURSIVE TempQuoted(_, _, _, _)
TempQuoted(parser, t, end, delim) ==
    With(parser.cur, LAMBDA c :
        IF c < 0 \/ c = Ord["\n"] THEN MissingEndQuote(parser, t)
        ELSE IF c = delim THEN [parser |-> parser, t |-> t, err |-> "OK"]
        ELSE IF t.start + t.n >= end
        THEN [parser |-> parser, t |-> t, err |-> "OUT_OF_MEMORY"]
        ELSE TempQuoted(lsml_nextchar(parser), Write(t, c), end, delim))

RECURSIVE TempEscaped(_, _, _)
TempEscaped(parser, t, end) ==
    With(parser.cur, LAMBDA c :
        IF c < 0 \/ c = Ord["\n"] THEN MissingEndQuote(parser, t)
        ELSE IF c = Ord["backtick"] THEN [parser |-> parser, t |-> t, err |-> "OK"]
        ELSE IF t.start + t.n >= end
        THEN [parser |-> parser, t |-> t, err |-> "OUT_OF_MEMORY"]
        ELSE IF c = Ord["\\"]
        THEN With(Escape(parser, t, end), LAMBDA e :
                IF e.err # "OK" THEN [parser |-> e.parser, t |-> e.t, err |-> e.err]
                ELSE IF e.again THEN TempEscaped(e.parser, e.t, end)
                ELSE TempEscaped(lsml_nextchar(e.parser), Write(e.t, e.c), end))
        ELSE TempEscaped(lsml_nextchar(parser), Write(t, c), end))

\* Skips to the newline or to end_delim; the first character that is not
\* whitespace is reported as errcode, once, and a comment is skipped.
RECURSIVE SkipReporting(_, _, _, _)
SkipReporting(parser, end_delim, errcode, logged_err) ==
    With(parser.cur, LAMBDA c :
        IF c >= 0 /\ c # Ord["\n"] /\ c # end_delim
        THEN IF c = Ord["#"] THEN [parser |-> lsml_skip_comment(parser), err |-> "OK"]
             ELSE IF ~logged_err /\ ~lsml_isspace(c)
             THEN With(lsml_log_err(parser, errcode), LAMBDA l :
                    IF l.abort THEN [parser |-> l.parser, err |-> "PARSE_ABORTED"]
                    ELSE SkipReporting(lsml_nextchar(l.parser), end_delim, errcode,
                                       TRUE))
             ELSE SkipReporting(lsml_nextchar(parser), end_delim, errcode, logged_err)
        ELSE [parser |-> parser, err |-> "OK"])

\* After a quoted or an escaped string: passes the end quote and tries to
\* reach the end delimiter.
AfterEndQuote(parser, delim, end_delim) ==
    With(IF parser.cur = delim THEN lsml_nextchar(parser) ELSE parser, LAMBDA p :
        IF p.cur >= 0 /\ p.cur # Ord["\n"] /\ end_delim # 0 /\ p.cur # end_delim
        THEN SkipReporting(p, end_delim, "TEXT_AFTER_END_QUOTE", FALSE)
        ELSE [parser |-> p, err |-> "OK"])

\* The string loop that the opening delimiter selects.
TempBody(parser, t, end, end_delim, delim) ==
    IF delim = 0 THEN [parser |-> parser, t |-> t, err |-> "OK"]
    ELSE IF delim = Ord["\n"] THEN TempUnquoted(parser, t, end, end_delim)
    ELSE With(IF delim = Ord["backtick"] THEN TempEscaped(parser, t, end)
              ELSE TempQuoted(parser, t, end, delim), LAMBDA q :
         With(AfterEndQuote(q.parser, delim, end_delim), LAMBDA a :
            IF q.err # "OK" THEN q
            ELSE [parser |-> a.parser, t |-> q.t, err |-> a.err]))

\* The buffer after the bytes t.w were written from t.start on.
Scribbled(m, t) ==
    IF t.w = <<>> THEN m
    ELSE Store(m, t.start, [t |-> "bytes", sz |-> Len(t.w), b |-> t.w])

NoString == [ptr |-> NULL, len |-> 0, b |-> <<>>]

\* `data->alloc.offset = og_offset + string->len + 1`: the arena cursor is
\* moved past the terminator.
LockInShort(og_offset, len) == og_offset + len

LockIn(og_offset, len) == og_offset + len + 1

\* save_string: the terminator is written at the cursor and the string is
\* locked in.
SaveString(s, parser, t, og_offset, is_name) ==
    With(SubSeq(t.w, 1, t.n) \o <<0>>, LAMBDA b :
        IF is_name /\ t.n = 0
        THEN [s |-> [s EXCEPT !.mem = Scribbled(@, t),
                              !.hist.high = Higher(@, t.start + Len(t.w))],
              parser |-> parser, err |-> "INVALID_KEY", string |-> NoString]
        ELSE [s |-> [s EXCEPT !.mem = Store(Scribbled(@, Write(t, 0)), t.start,
                                            [t |-> "bytes", sz |-> t.n + 1,
                                             b |-> b]),
                              !.alloc.offset = LockIn(og_offset, t.n),
                              !.hist.high = Higher(@, t.start + Len(Write(t, 0).w))],
              parser |-> [parser EXCEPT !.seen.offset = LockIn(og_offset, t.n)],
              err |-> "OK",
              string |-> [ptr |-> t.start, len |-> t.n, b |-> b]])

lsml_parse_temp_string(s, parser, end_delim, is_name) ==
    With(s.alloc.offset, LAMBDA og_offset :
    With(s.alloc.size - 1, LAMBDA end :
    With(TempStart(Seeing(parser, s), NewTemp(og_offset), end, end_delim),
         LAMBDA h :
    With(IF h.err = "OK" THEN TempBody(h.parser, h.t, end, end_delim, h.delim)
         ELSE [parser |-> h.parser, t |-> h.t, err |-> h.err], LAMBDA b :
        IF og_offset >= end
        THEN [s |-> s, parser |-> parser, err |-> "OUT_OF_MEMORY",
              string |-> NoString]
        ELSE IF b.err # "OK"
        THEN [s |-> [s EXCEPT !.mem = Scribbled(@, b.t),
                              !.hist.high = Higher(@, b.t.start + Len(b.t.w))],
              parser |-> b.parser, err |-> b.err, string |-> NoString]
        ELSE SaveString(s, b.parser, b.t, og_offset, is_name)))))

\* lsml_discard_temp_string, were it to give back the byte before the
\* string as well.
DiscardOneMore(s, temp_string) ==
    IF temp_string.ptr = NULL THEN s
    ELSE [s EXCEPT !.alloc.offset = temp_string.ptr - 1,
                   !.hist.low = Lower(@, temp_string.ptr - 1)]

\* lsml_discard_temp_string, were it to keep the first byte of the string.
DiscardShort(s, temp_string) ==
    IF temp_string.ptr = NULL THEN s
    ELSE [s EXCEPT !.alloc.offset = temp_string.ptr + 1,
                   !.hist.low = Lower(@, temp_string.ptr + 1),
                   !.hist.discards =
                       Append(@, [string |-> temp_string.ptr,
                                  from |-> s.alloc.offset,
                                  to |-> temp_string.ptr + 1,
                                  mem |-> s.mem, data |-> s.data])]

lsml_discard_temp_string(s, temp_string) ==
    IF temp_string.ptr = NULL THEN s
    ELSE [s EXCEPT !.alloc.offset = temp_string.ptr,
                   !.hist.low = Lower(@, temp_string.ptr),
                   !.hist.discards =
                       Append(@, [string |-> temp_string.ptr,
                                  from |-> s.alloc.offset,
                                  to |-> temp_string.ptr,
                                  mem |-> s.mem, data |-> s.data])]

\* `(*reg_str)->string.str != string->str`: the string was there already.
NotMoved(reg_str_at, string_at) == reg_str_at # string_at

\* Returns the state, the error and the registered string.
lsml_register_temp_string(s, string) ==
    With(lsml_data_register_string(s, string, string.len, TRUE), LAMBDA r :
    With(IF NotMoved(r.s.mem[r.reg].str, string.ptr)
         THEN lsml_discard_temp_string(r.s, string) ELSE r.s, LAMBDA s1 :
    With(lsml_hm_rehash_if_needed(s1.alloc, s1.mem, s1.data.strings_head,
                                  s1.data.strings_tail, s1.data.n_strings,
                                  s1.data.n_strings_chunks), LAMBDA rh :
        IF r.err # "OK"
        THEN [s |-> lsml_discard_temp_string(r.s, string), err |-> r.err,
              reg |-> NULL]
        ELSE [s |-> [s1 EXCEPT !.alloc = rh.alloc, !.mem = rh.mem,
                               !.data.strings_tail = rh.tail,
                               !.data.n_strings_chunks = rh.n_chunks,
                               !.hist.low = Lower(@, rh.alloc.offset)],
              err |-> rh.err, reg |-> r.reg])))

\* cond is the condition callback: NULL (present = FALSE), or a function
\* that accepts the sections whose name is in accept.
NoCondition == [present |-> FALSE, accept |-> {}]

Accepts(cond, section_name, section_type) ==
    SubSeq(section_name.b, 1, section_name.len) \in cond.accept

\* Returns the state, the parser, the error and the section (NULL if the
\* section is skipped).
lsml_parse_section_header(s, parser, cond) ==
    With(IF parser.cur = Ord["{"] THEN Ord["}"] ELSE Ord["]"], LAMBDA delim :
    With(IF parser.cur = Ord["{"] THEN LSML_TABLE ELSE LSML_ARRAY, LAMBDA type :
    With(lsml_parse_temp_string(s, lsml_nextchar(parser), delim, TRUE), LAMBDA temp :
    With(IF temp.parser.cur = delim
         THEN [parser |-> lsml_nextchar(temp.parser), abort |-> FALSE]
         ELSE lsml_log_err(temp.parser, "SECTION_HEADER_UNCLOSED"), LAMBDA closed :
    With(SkipReporting(closed.parser, Ord["\n"], "TEXT_AFTER_SECTION_HEADER", FALSE),
         LAMBDA rest :
    With(lsml_register_temp_string(temp.s, temp.string), LAMBDA name :
    With(lsml_data_add_section_internal(name.s, name.reg, type), LAMBDA added :
        IF parser.cur \notin {Ord["{"], Ord["["]}
        THEN [s |-> s, parser |-> parser, err |-> "SECTION_TYPE", section |-> NULL]
        ELSE IF temp.err # "OK"
        THEN [s |-> temp.s, parser |-> temp.parser,
              err |-> IF temp.err = "INVALID_KEY" THEN "SECTION_NAME_EMPTY"
                      ELSE temp.err,
              section |-> NULL]
        ELSE IF closed.abort
        THEN [s |-> temp.s, parser |-> closed.parser, err |-> "PARSE_ABORTED",
              section |-> NULL]
        ELSE IF rest.err # "OK"
        THEN [s |-> temp.s, parser |-> rest.parser, err |-> rest.err,
              section |-> NULL]
        ELSE IF cond.present /\ ~Accepts(cond, temp.string, type)
        THEN [s |-> lsml_discard_temp_string(temp.s, temp.string),
              parser |-> rest.parser, err |-> "OK", section |-> NULL]
        ELSE IF name.err # "OK"
        THEN [s |-> name.s, parser |-> rest.parser, err |-> name.err,
              section |-> NULL]
        ELSE [s |-> added.s, parser |-> rest.parser, err |-> added.err,
              section |-> added.section])))))))

lsml_parse_table_entry(s, parser, table) ==
    With(lsml_parse_temp_string(s, parser, Ord["="], FALSE), LAMBDA temp_key :
    With(lsml_log_err(Seeing(temp_key.parser,
                             lsml_discard_temp_string(temp_key.s, temp_key.string)),
                      "TABLE_ENTRY_MISSING_EQUALS"), LAMBDA missing :
    With(lsml_nextchar(temp_key.parser), LAMBDA p1 :
    With(lsml_register_temp_string(temp_key.s, temp_key.string), LAMBDA key :
    With(lsml_hm_get_node_reg(key.s.mem, key.s.mem[table].section,
                              key.s.mem[table].n_chunks, key.reg), LAMBDA table_node :
    With(lsml_log_err(Seeing(p1, key.s), "TABLE_KEY_REUSED"), LAMBDA reused :
    With(lsml_parse_temp_string(key.s, p1, Ord["\n"], FALSE), LAMBDA temp_val :
    With(lsml_register_temp_string(temp_val.s, temp_val.string), LAMBDA val :
    With(lsml_table_add_entry_internal(val.s, table, key.reg, val.reg), LAMBDA put :
        IF temp_key.err # "OK"
        THEN [s |-> temp_key.s, parser |-> temp_key.parser, err |-> temp_key.err]
        ELSE IF temp_key.parser.cur # Ord["="]
        THEN [s |-> lsml_discard_temp_string(temp_key.s, temp_key.string),
              parser |-> missing.parser,
              err |-> IF missing.abort THEN "PARSE_ABORTED" ELSE "OK"]
        ELSE IF key.err # "OK" THEN [s |-> key.s, parser |-> p1, err |-> key.err]
        ELSE IF table_node # NULL
        THEN [s |-> key.s, parser |-> reused.parser,
              err |-> IF reused.abort THEN "PARSE_ABORTED" ELSE "OK"]
        ELSE IF temp_val.err # "OK"
        THEN [s |-> temp_val.s, parser |-> temp_val.parser, err |-> temp_val.err]
        ELSE IF val.err # "OK"
        THEN [s |-> val.s, parser |-> temp_val.parser, err |-> val.err]
        ELSE [s |-> put.s, parser |-> temp_val.parser, err |-> put.err])))))))))

RowGoesOnInComment(cur) == cur >= 0 /\ cur # Ord["\n"]

\* `while (parser->cur >= 0 && parser->cur != '\n' && parser->cur != '#')`
RowGoesOn(cur) == cur >= 0 /\ cur # Ord["\n"] /\ cur # Ord["#"]

\* The loop over the comma-separated values of one row.
RECURSIVE ArrayEntriesLoop(_, _, _, _)
ArrayEntriesLoop(s, parser, array, newrow) ==
    IF RowGoesOn(parser.cur)
    THEN With(lsml_parse_temp_string(s, parser, Ord[","], FALSE), LAMBDA temp_val :
         With(lsml_register_temp_string(temp_val.s, temp_val.string), LAMBDA val :
         With(lsml_array_add_entry_internal(val.s, array, val.reg, newrow),
              LAMBDA put :
         With(IF temp_val.parser.cur = Ord[","] THEN lsml_nextchar(temp_val.parser)
              ELSE temp_val.parser, LAMBDA p1 :
            IF temp_val.err # "OK"
            THEN [s |-> temp_val.s, parser |-> temp_val.parser,
                  err |-> temp_val.err]
            ELSE IF val.err # "OK"
            THEN [s |-> val.s, parser |-> temp_val.parser, err |-> val.err]
            ELSE IF put.err # "OK"
            THEN [s |-> put.s, parser |-> temp_val.parser, err |-> put.err]
            ELSE IF p1.cur = Ord["\n"]
            THEN [s |-> put.s, parser |-> p1, err |-> "OK"]
            ELSE ArrayEntriesLoop(put.s, lsml_skip_whitespace(p1), array, FALSE)))))
    ELSE [s |-> s, parser |-> parser, err |-> "OK"]

ArrayEntriesOneRow(s, parser, array) == ArrayEntriesLoop(s, parser, array, FALSE)

\* `int newrow = 1;` before the loop: the first value of a line starts a row.
lsml_parse_array_entries(s, parser, array) == ArrayEntriesLoop(s, parser, array, TRUE)

\* LSML_PARSE_ALL with a logger that never aborts.
ParseAll ==
    [n_sections |-> 0, condition |-> NoCondition, err_log |-> TRUE, abort_at |-> 0]

SkipsReusedOnly(err) == err = "SECTION_NAME_REUSED"

\* The errors of a header on which lsml_parse skips the section, logs the
\* error and goes on: `case LSML_ERR_SECTION_NAME_REUSED:` and
\* `case LSML_ERR_SECTION_NAME_EMPTY:`.
SkipsSection(err) == err \in {"SECTION_NAME_REUSED", "SECTION_NAME_EMPTY"}

EnoughLate(options, n_sections_parsed) ==
    options.n_sections # 0 /\ n_sections_parsed > options.n_sections

\* `options.n_sections != 0 && n_sections_parsed >= options.n_sections`
Enough(options, n_sections_parsed) ==
    options.n_sections # 0 /\ n_sections_parsed >= options.n_sections

\* One pass of the body of the line loop, up to lsml_skip_line.  done is
\* TRUE where lsml_parse returns from inside the loop, with err.
ParseLine(s, parser, section, n_sections_parsed, options) ==
    With(lsml_skip_whitespace(parser), LAMBDA p :
    With(p.cur, LAMBDA c :
    With(lsml_parse_section_header(s, p, options.condition), LAMBDA header :
    With(IF s.mem[section].row_indices # NULL
         THEN lsml_parse_array_entries(s, p, section)
         ELSE lsml_parse_table_entry(s, p, section), LAMBDA entry :
    With(IF (c = Ord["{"] /\ p.next # Ord["}"]) \/ (c = Ord["["] /\ p.next # Ord["]"])
         THEN IF Enough(options, n_sections_parsed)
              THEN [s |-> s, parser |-> p, err |-> "OK", report |-> "OK",
                    fatal |-> TRUE, section |-> section, n |-> n_sections_parsed]
              ELSE [s |-> header.s, parser |-> header.parser, err |-> header.err,
                    report |-> IF SkipsSection(header.err)
                               THEN header.err ELSE "OK",
                    fatal |-> header.err # "OK" /\ ~SkipsSection(header.err),
                    section |-> header.section, n |-> n_sections_parsed + 1]
         ELSE IF c = Ord["#"]
         THEN [s |-> s, parser |-> lsml_skip_comment(p), err |-> "OK",
               report |-> "OK", fatal |-> FALSE, section |-> section,
               n |-> n_sections_parsed]
         ELSE IF c >= 0 /\ section # NULL
         THEN [s |-> entry.s, parser |-> entry.parser, err |-> entry.err,
               report |-> IF entry.err \in {"OUT_OF_MEMORY", "PARSE_ABORTED"}
                          THEN "OK" ELSE entry.err,
               fatal |-> entry.err \in {"OUT_OF_MEMORY", "PARSE_ABORTED"},
               section |-> section, n |-> n_sections_parsed]
         ELSE [s |-> s, parser |-> p, err |-> "OK",
               report |-> IF c >= 0 /\ s.data.n_sections = 0
                          THEN "TEXT_OUTSIDE_SECTION" ELSE "OK",
               fatal |-> FALSE, section |-> section, n |-> n_sections_parsed],
         LAMBDA r :
    With(lsml_log_err(Seeing(r.parser, r.s), r.report), LAMBDA l :
        [s |-> r.s, section |-> r.section, n |-> r.n,
         parser |-> IF r.fatal THEN r.parser ELSE l.parser,
         err |-> IF r.fatal THEN r.err
                 ELSE IF l.abort THEN "PARSE_ABORTED" ELSE "OK",
         done |-> r.fatal \/ l.abort]))))))

\* `while (c >= 0)`: c is parser->cur where the condition is evaluated.
RECURSIVE ParseLoop(_, _, _, _, _)
ParseLoop(s, parser, section, n_sections_parsed, options) ==
    IF parser.cur < 0 THEN [s |-> s, parser |-> parser, err |-> "OK"]
    ELSE With(ParseLine(s, [parser EXCEPT !.starts = Append(@, parser.at)],
                        section, n_sections_parsed, options), LAMBDA r :
            IF r.done THEN [s |-> r.s, parser |-> r.parser, err |-> r.err]
            ELSE ParseLoop(r.s, lsml_skip_line(r.parser), r.section, r.n, options))

\* in is what the reader yields; data and reader.read are not NULL.
lsml_parse(s, in, options) ==
    ParseLoop(s, lsml_nextchar(lsml_nextchar(NewParser(in, options.err_log,
                                                       options.abort_at))),
              NULL, 0, options)

\* ------------------------------------------------------------ the machine

\* Bounds of the model.
BufSize == 1024
MaxPush == 4
MaxEntries == 5
\* A buffer that holds three sections and then cannot grow the section map.
SmallBuf == 512
\* The operations made on one document: successful adds and pushes, and
\* calls of lsml_parse.
MaxOps == 3

\* The byte strings the caller passes in: "a", "b".
Values == {<<97>>, <<98>>}
ArrayNames == {<<109>>}
\* "t"; "a" .. "e" share two buckets at first and spread over eight.
TableNames == {<<116>>}
TableKeys == {<<97>>, <<98>>, <<99>>, <<100>>, <<101>>}
\* "z" is never added.
AbsentKey == <<122>>
SectionNames == {<<97>>, <<98>>, <<99>>, <<100>>}

NoRet == [op |-> "none"]

\* The read-only operations change nothing but ret, so whatever follows a
\* read starts from the state the read found.  Every operation is therefore
\* taken from the states a mutating operation (or construction) left, and a
\* read ends the behaviour it is made in.
ReadOps == {"array_get", "array_get_2d", "array_2d_size", "array_next",
            "array_next_2d", "get_section", "table_get", "table_next",
            "next_section", "array_get_many"} \cup
           {"toi", "tol", "toll", "tou", "toul", "toull", "toref"}

\* After lsml_data_clear the arena cursor lies below the first chunks of
\* the two maps, so that the next allocation overwrites them: the document
\* is followed no further than the call.
Settled == ret.op \notin ReadOps /\ ret.op # "clear"

\* The state after lsml_data_new on a buffer of size bytes.
InitSized(size) ==
    LET s == lsml_data_new(size)
    IN  /\ alloc = s.alloc
        /\ mem = s.mem
        /\ data = s.data
        /\ hist = [regs |-> {}, sections |-> {}, made |-> {}, pushes |-> <<>>,
                   entries |-> {}, parses |-> 0, logged |-> {},
                   iter |-> [kind |-> "none"], low |-> 0, discards |-> <<>>,
                   high |-> 0]
        /\ ret = NoRet

Init == InitSized(BufSize)

InitAnySize == \E size \in {SmallBuf, BufSize} : InitSized(size)

Commit(s) ==
    /\ alloc' = s.alloc
    /\ mem' = s.mem
    /\ data' = s.data

\* The nodes of one collision chain.
RECURSIVE ChainNodes(_, _)
ChainNodes(m, node) ==
    IF node = NULL THEN {} ELSE {node} \cup ChainNodes(m, m[node].next)

\* The nodes of a hashmap, bucket by bucket.
MapNodes(m, header, n_chunks) ==
    IF header = NULL THEN {}
    ELSE UNION {With(lsml_cha_get_bucket(m, header, n_chunks, index), LAMBDA addr :
                    IF addr.chunk = NULL THEN {}
                    ELSE ChainNodes(m, m[addr.chunk].elems[addr.i])) :
                index \in 0..(n_chunks * LSML_CHUNK_LEN - 1)}

\* The nodes of a table.
TableNodes(s, table) ==
    MapNodes(s.mem, s.mem[table].section, s.mem[table].n_chunks)

\* The entries of a table, as [key, value] in bytes.
Entries(s, table) ==
    {[key |-> StrBytes(s.mem, s.mem[node].str),
      value |-> StrBytes(s.mem, s.mem[node].value)] :
     node \in TableNodes(s, table)}

\* The records of the strings table.
Interned(s) ==
    {s.mem[node].str :
     node \in MapNodes(s.mem, s.data.strings_head, s.data.n_strings_chunks)}

\* The sections the document holds, made by lsml_data_add_section or by
\* lsml_parse.
Tables == {x \in hist.made : x.type = LSML_TABLE}

\* The sections handed to the caller so far.
Handed(type) == {x \in hist.sections : x.type = type}

AddSection(type, name) ==
    /\ Settled
    /\ \E r \in {lsml_data_add_section(State, type, name, Len(name))} :
        /\ Commit(r.s)
        /\ hist' = IF r.err = "OK"
                   THEN [r.s.hist EXCEPT
                           !.sections = @ \cup {[ptr |-> r.section, name |-> name,
                                                 type |-> type]},
                           !.pushes = IF type = LSML_ARRAY
                                      THEN [x \in DOMAIN @ \cup {r.section} |->
                                              IF x = r.section THEN <<>> ELSE @[x]]
                                      ELSE @]
                   ELSE r.s.hist
        /\ ret' = [op |-> "add_section", type |-> type, name |-> name,
                   err |-> r.err, section |-> r.section,
                   before |-> {[ptr |-> x.ptr, obj |-> mem[x.ptr]] :
                                 x \in {y \in hist.sections : y.name = name}},
                   n_before |-> data.n_sections, pre |-> State]

ArrayPush(array, val, newrow) ==
    /\ Settled
    /\ lsml_section_len(State, array) < MaxPush
    /\ \E r \in {lsml_array_push(State, array, val, Len(val), newrow)} :
        /\ Commit(r.s)
        /\ hist' = IF r.err = "OK"
                   THEN [r.s.hist EXCEPT
                           !.pushes[array] = Append(@, [v |-> val, newrow |-> newrow])]
                   ELSE r.s.hist
        /\ ret' = [op |-> "array_push", section |-> array, err |-> r.err]

ArrayGet(array, index, want_value) ==
    /\ Settled
    /\ \E o \in lsml_array_get(State, array, index, want_value) :
          ret' = [op |-> "array_get", section |-> array, index |-> index,
                  want |-> want_value, err |-> o.err, value |-> o.value]
    /\ UNCHANGED <<alloc, mem, data, hist>>

ArrayGet2d(array, row, col, want_value) ==
    /\ Settled
    /\ \E o \in lsml_array_get_2d(State, array, row, col, want_value) :
          ret' = [op |-> "array_get_2d", section |-> array, row |-> row,
                  col |-> col, want |-> want_value, err |-> o.err,
                  value |-> o.value]
    /\ UNCHANGED <<alloc, mem, data, hist>>

Array2dSize(array, is_jagged) ==
    /\ Settled
    /\ \E r \in {lsml_array_2d_size(State, array, is_jagged)} :
        /\ ret' = [op |-> "array_2d_size", section |-> array,
                   is_jagged |-> is_jagged, err |-> r.err, rows |-> r.rows,
                   cols |-> r.cols]
        /\ UNCHANGED <<alloc, mem, data, hist>>

ArrayIterate(array) ==
    /\ Settled
    /\ \E r \in {IterateArray(State, array, ZeroIter, <<>>, MaxPush + 2)} :
        /\ ret' = [op |-> "array_next", section |-> array, items |-> r.items,
                   more |-> r.more]
        /\ UNCHANGED <<alloc, mem, data, hist>>

ArrayIterate2d(array) ==
    /\ Settled
    /\ \E r \in {IterateArray2d(State, array, ZeroIter, 0, 0, <<>>, MaxPush + 2)} :
        /\ ret' = [op |-> "array_next_2d", section |-> array, items |-> r.items,
                   more |-> r.more]
        /\ UNCHANGED <<alloc, mem, data, hist>>

TableAdd(table, key, value) ==
    /\ Settled
    /\ lsml_section_len(State, table) < MaxEntries
    /\ \E r \in {lsml_table_add_entry(State, table, key, Len(key), value, Len(value))} :
        /\ Commit(r.s)
        /\ hist' = IF r.err = "OK"
                   THEN [r.s.hist EXCEPT
                           !.entries = @ \cup {[table |-> table, key |-> key,
                                                value |-> value]}]
                   ELSE r.s.hist
        /\ ret' = [op |-> "table_add", section |-> table, key |-> key,
                   value |-> value,
                   err |-> r.err, before |-> Entries(State, table),
                   len_before |-> lsml_section_len(State, table),
                   pre |-> State]

\* Calls lsml_table_next from a zeroed iterator until it returns 0, or until
\* it is led to memory that holds something else.
RECURSIVE IterateTable(_, _, _, _, _)
IterateTable(s, table, iter, items, fuel) ==
    With(lsml_table_next(s, table, iter), LAMBDA r :
        IF fuel = 0 THEN [items |-> items, more |-> TRUE, wild |-> FALSE, iter |-> iter]
        ELSE IF r.wild
        THEN [items |-> items, more |-> FALSE, wild |-> TRUE, iter |-> r.iter]
        ELSE IF r.ret = 0
        THEN [items |-> items, more |-> FALSE, wild |-> FALSE, iter |-> r.iter]
        ELSE IterateTable(s, table, r.iter,
                          Append(items,
                                 [key |-> StrBytes(s.mem, s.mem[r.iter.elem].str),
                                  value |-> StrBytes(s.mem, s.mem[r.iter.elem].value)]),
                          fuel - 1))

\* Calls lsml_data_next_section from a zeroed iterator until it returns 0:
\* the sections and the types it hands out.
RECURSIVE IterateSections(_, _, _, _)
IterateSections(s, iter, items, fuel) ==
    With(lsml_data_next_section(s, iter), LAMBDA r :
        IF fuel = 0 THEN [items |-> items, more |-> TRUE, wild |-> FALSE, iter |-> iter]
        ELSE IF r.wild
        THEN [items |-> items, more |-> FALSE, wild |-> TRUE, iter |-> r.iter]
        ELSE IF r.ret = 0
        THEN [items |-> items, more |-> FALSE, wild |-> FALSE, iter |-> r.iter]
        ELSE IterateSections(s, r.iter,
                 Append(items,
                        [section |-> r.iter.elem,
                         section_type |-> IF s.mem[r.iter.elem].row_indices # NULL
                                          THEN LSML_ARRAY ELSE LSML_TABLE]),
                 fuel - 1))

\* What an iterator hands out when it reads memory that was handed out
\* again: whatever lies there.
Reused == [key |-> <<>>, value |-> <<>>]

\* An iterator led into reused memory reads zeroes there and ends, or reads
\* something else and hands it out.
TableIterate(table) ==
    /\ Settled
    /\ \E r \in {IterateTable(State, table, ZeroIter, <<>>, MaxEntries + 2)} :
       \E read \in (IF r.wild THEN {<<>>, <<Reused>>} ELSE {<<>>}) :
        /\ ret' = [op |-> "table_next", section |-> table,
                   items |-> r.items \o read, more |-> r.more, wild |-> r.wild]
        /\ UNCHANGED <<alloc, mem, data, hist>>

\* The caller's iterator, kept in hist.iter between the calls: the container
\* it is used with, what it has handed out, began: what the container held
\* when the iteration began, valid: whether all it handed out was in the
\* container then, done: whether a call has returned 0.
Stepping(kind, section, began) ==
    IF hist.iter.kind = "none"
    THEN [kind |-> kind, section |-> section, iter |-> ZeroIter,
          yielded |-> <<>>, began |-> began, valid |-> TRUE, done |-> FALSE]
    ELSE hist.iter

\* The iterator is fresh, or it is the one in use on this container and has
\* not come to the end.
CanStep(kind, section) ==
    \/ hist.iter.kind = "none"
    \/ hist.iter.kind = kind /\ hist.iter.section = section /\ ~hist.iter.done

\* One call of lsml_table_next on the caller's iterator.
TableStep(table) ==
    /\ Settled
    /\ CanStep("table", table)
    /\ \E it \in {Stepping("table", table, TableNodes(State, table))} :
       \E r \in {lsml_table_next(State, table, it.iter)} :
        /\ hist' = [hist EXCEPT !.iter =
                      [it EXCEPT
                         !.iter = r.iter,
                         !.yielded = IF r.ret = 1 THEN Append(@, r.iter.elem) ELSE @,
                         !.valid = @ /\ (r.ret = 1 =>
                                           /\ ~r.wild
                                           /\ r.iter.elem \in TableNodes(State, table)),
                         !.done = (r.ret = 0)]]
        /\ ret' = [op |-> "table_step", section |-> table, ret |-> r.ret]
        /\ UNCHANGED <<alloc, mem, data>>

\* One call of lsml_array_next on the caller's iterator; what it hands out
\* is told by its index.
ArrayStep(array) ==
    /\ Settled
    /\ CanStep("array", array)
    /\ \E it \in {Stepping("array", array, 0..(lsml_section_len(State, array) - 1))} :
       \E r \in {lsml_array_next(State, array, it.iter)} :
        /\ hist' = [hist EXCEPT !.iter =
                      [it EXCEPT
                         !.iter = r.iter,
                         !.yielded = IF r.ret = 1 THEN Append(@, r.iter.index) ELSE @,
                         !.valid = @ /\ (r.ret = 1 =>
                                           /\ r.iter.index < Len(hist.pushes[array])
                                           /\ r.value = hist.pushes[array][r.iter.index + 1].v),
                         !.done = (r.ret = 0)]]
        /\ ret' = [op |-> "array_step", section |-> array, ret |-> r.ret]
        /\ UNCHANGED <<alloc, mem, data>>

TableGet(table, key) ==
    /\ Settled
    /\ \E r \in {lsml_table_get(State, table, key, Len(key))} :
        /\ ret' = [op |-> "table_get", section |-> table, key |-> key,
                   err |-> r.err, value |-> r.value]
        /\ UNCHANGED <<alloc, mem, data, hist>>

GetSection(desired_type, name) ==
    /\ Settled
    /\ \E r \in {lsml_data_get_section(State, desired_type, name, Len(name))} :
        /\ ret' = [op |-> "get_section", desired |-> desired_type, name |-> name,
                   err |-> r.err, section |-> r.section_found,
                   type |-> r.section_type]
        /\ UNCHANGED <<alloc, mem, data, hist>>

ArrayMutate ==
    \/ \E name \in ArrayNames : AddSection(LSML_ARRAY, name)
    \/ \E x \in Handed(LSML_ARRAY), val \in Values, newrow \in BOOLEAN :
          ArrayPush(x.ptr, val, newrow)

NextArray ==
    \/ ArrayMutate
    \/ \E x \in Handed(LSML_ARRAY), index \in 0..(MaxPush + 1), want \in BOOLEAN :
          ArrayGet(x.ptr, index, want)
    \/ \E x \in Handed(LSML_ARRAY), row \in 0..MaxPush, col \in 0..MaxPush,
          want \in BOOLEAN : ArrayGet2d(x.ptr, row, col, want)
    \/ \E x \in Handed(LSML_ARRAY), is_jagged \in BOOLEAN :
          Array2dSize(x.ptr, is_jagged)
    \/ \E x \in Handed(LSML_ARRAY) : ArrayIterate(x.ptr)
    \/ \E x \in Handed(LSML_ARRAY) : ArrayIterate2d(x.ptr)

SpecArray == Init /\ [][NextArray]_vars

\* One table is made, and then only its entries are added and read.
NextTable ==
    \/ \E name \in TableNames : hist.sections = {} /\ AddSection(LSML_TABLE, name)
    \/ \E x \in Handed(LSML_TABLE), key \in TableKeys, value \in Values :
          TableAdd(x.ptr, key, value)
    \/ \E x \in Handed(LSML_TABLE), key \in TableKeys \cup {AbsentKey} :
          TableGet(x.ptr, key)

SpecTable == Init /\ [][NextTable]_vars

NextSections ==
    \/ \E type \in {LSML_TABLE, LSML_ARRAY}, name \in SectionNames :
          AddSection(type, name)
    \/ \E desired \in {LSML_TABLE, LSML_ARRAY, LSML_ANYSECTION},
          name \in SectionNames \cup {AbsentKey} : GetSection(desired, name)

SpecSections == InitAnySize /\ [][NextSections]_vars

\* ------------------------------------------------------------ the parser

\* A table with a key given twice; its third string grows the strings table.
TextTable == Bytes("{t}\na=a\nb=b\na=c\n")
\* Two tables with the same keys, the second with a key given twice.
TextTables == Bytes("{t}\nb=c\n{u}\nb=a\nb=b\nc=a")
\* An array of two rows.
TextArray == Bytes("[m]\na,b\nc,\nb\n")
\* Quoted and escaped strings, section references, text after a quote.
TextQuoted ==
    Bytes("{q}\n'a' = \"b c\" x\n") \o BQ \o Bytes("\\x41\\q") \o BQ
        \o Bytes("={}t # c\nz=abcdefgh")
\* Lines that are logged and skipped.
TextErrors == Bytes("x\n{t}\nk v\n{t}\nk=v\n[u\n{}\n")

Texts == {TextTable, TextTables, TextArray, TextQuoted, TextErrors}

\* lsml_parse on the text in, read through lsml_reader_from_string.
Parse(in, options) ==
    /\ Settled
    /\ \E r \in {lsml_parse(State, in, options)} :
        /\ Commit(r.s)
        /\ hist' = [r.s.hist EXCEPT
                      !.parses = @ + 1,
                      !.logged = @ \cup {r.parser.log[i].err :
                                           i \in DOMAIN r.parser.log}]
        /\ ret' = [op |-> "parse", in |-> in, options |-> options, pre |-> State,
                   err |-> r.err, log |-> r.parser.log, line |-> r.parser.line,
                   at |-> r.parser.at, cur |-> r.parser.cur,
                   starts |-> r.parser.starts,
                   marks |-> r.parser.marks,
                   names_before |-> {x.name : x \in hist.made},
                   tables_before |-> {[table |-> x.ptr,
                                       entries |-> Entries(State, x.ptr),
                                       len |-> lsml_section_len(State, x.ptr)] :
                                      x \in Tables},
                   regs_before |-> hist.regs,
                   strings_chunks_before |-> data.n_strings_chunks]

\* The value the caller adds and pushes: "c", which the texts hold as well.
LaterValue == <<99>>

\* The successful pushes made so far.
PushCount ==
    Cardinality({p \in (DOMAIN hist.pushes) \X (1..MaxPush) :
                    p[2] <= Len(hist.pushes[p[1]])})

\* The operations made so far.
Work ==
    Cardinality(hist.sections) + Cardinality(hist.entries) + PushCount
        + hist.parses

Next ==
    \/ \E type \in {LSML_TABLE, LSML_ARRAY}, name \in TableNames \cup ArrayNames :
          Work < MaxOps /\ AddSection(type, name)
    \/ \E x \in Tables, key \in Values :
          Work < MaxOps /\ TableAdd(x.ptr, key, LaterValue)
    \/ \E x \in Handed(LSML_ARRAY), newrow \in BOOLEAN :
          Work < MaxOps /\ ArrayPush(x.ptr, LaterValue, newrow)
    \/ \E in \in Texts : Work < MaxOps /\ Parse(in, ParseAll)

Spec == InitAnySize /\ [][Next]_vars

\* ------------------------------------------------------- parsed documents

\* The most lines of a generated text.
MaxLines == 3
\* The most calls of the err_log callback before the one that returns nonzero.
MaxAbort == 6

\* The text of the lines, each ended by a newline.
RECURSIVE Join(_)
Join(lines) ==
    IF lines = <<>> THEN <<>>
    ELSE Head(lines) \o <<Ord["\n"]>> \o Join(Tail(lines))

\* The lines of a text, without their newlines.
RECURSIVE SplitLines(_, _)
SplitLines(b, cur) ==
    IF b = <<>> THEN IF cur = <<>> THEN <<>> ELSE <<cur>>
    ELSE IF Head(b) = Ord["\n"] THEN <<cur>> \o SplitLines(Tail(b), <<>>)
    ELSE SplitLines(Tail(b), Append(cur, Head(b)))

\* Headers of a table and of an array, a header with an empty name, entries
\* with and without `=`, a row of two values, a comment.
Lines ==
    {Bytes("{t}"), Bytes("[a]"), Bytes("{ }"), Bytes("k=1"), Bytes("k v"),
     Bytes("1,2"), Bytes("# c")}

LineTexts == UNION {{Join(ls) : ls \in [1..n -> Lines]} : n \in 1..MaxLines}

\* Scenario S3 of the specification: resilient recovery.
TextS3 ==
    Join(<<Bytes("stray text"), Bytes("{t}"), Bytes("k v"), Bytes("k=1"),
           Bytes("k=2"), Bytes("{t}"), Bytes("x=y"), Bytes("[a]"),
           Bytes("1,2,3"), Bytes("4,5")>>)

\* Strings that are cut off by the end of their line, and text after a quote.
TextCutOff ==
    Join(<<Bytes("{t}"), Bytes("\"k = 1"), Bytes("k = 'v"), Bytes("[a]"),
           Bytes("'1' x, 2"), BQ \o Bytes("\\q3"), Bytes("4")>>)

\* A header with no name, text after a header, and a code point past
\* 0x10FFFF in an escaped string.
TextEscapes ==
    Join(<<Bytes("{ }"), Bytes("[a] x"),
           BQ \o Bytes("\\U00110000") \o BQ \o Bytes(",1"), Bytes("2")>>)
\* Three sections, which fill the first chunk of the map of sections, and a
\* header that reuses a name.
TextSections ==
    Join(<<Bytes("{t}"), Bytes("[a]"), Bytes("{b}"), Bytes("{t}"), Bytes("k=1")>>)
ErrorTexts ==
    {TextS3, TextErrors, TextQuoted, TextCutOff, TextEscapes, TextSections}

\* The entry lines of an array section: one or two values, ended by nothing,
\* a comma, a tab, a comma and a space, a carriage return, a comma and a
\* carriage return, or a comma and a comment; a blank line; a comment line.
MaxRows == 2
RowValues == {Bytes("1"), Bytes("1,2")}
RowEnds ==
    {<<>>, Bytes(","), Bytes("\t"), Bytes(", "), Bytes("\r"), Bytes(",\r"),
     Bytes(",# c")}
RowLines == {v \o e : v \in RowValues, e \in RowEnds} \cup {<<>>, Bytes("# c")}

\* An array header and entry lines, alone and followed by a row that the
\* end of the input ends after its trailing comma.
RowTexts ==
    UNION {UNION {{Bytes("[a]\n") \o Join(ls),
                   Bytes("[a]\n") \o Join(ls) \o Bytes("1,2,")} :
                  ls \in [1..n -> RowLines]} : n \in 1..MaxRows}

\* Rows of up to MaxFields fields, each `7` or empty, every field but the
\* last followed by a comma, and the last by a comma or not.
MaxFields == 3
RECURSIVE Commas(_)
Commas(fields) ==
    IF Len(fields) = 1 THEN Head(fields)
    ELSE Head(fields) \o <<Ord[","]>> \o Commas(Tail(fields))

CommaRows ==
    UNION {UNION {{Commas(f), Commas(f) \o <<Ord[","]>>} :
                  f \in [1..n -> {Bytes("7"), <<>>}]} : n \in 1..MaxFields}

\* An array of one such row, ended by a newline, by a comment, by the end of
\* the input, or followed by another row.
CommaTexts ==
    {Bytes("[a]\n") \o row \o end :
        row \in CommaRows, end \in {Bytes("\n"), Bytes("# c\n"), <<>>, Bytes("\n2,\n")}}

\* LSML_PARSE_ALL with a logger that returns nonzero on its n-th call.
Aborting(n) == [ParseAll EXCEPT !.abort_at = n]

\* LSML_PARSE_ALL with a condition callback that accepts the sections named
\* `a` and no other.
Filtering ==
    [ParseAll EXCEPT !.condition = [present |-> TRUE, accept |-> {Bytes("a")}]]

\* Texts of up to MaxBlank lines that are empty, blank or a comment, ended
\* by the end of a line, by a blank or within a comment; the empty text is
\* among them.
MaxBlank == 2
BlankLines == {<<>>, Bytes(" "), Bytes("\t\r"), Bytes("# c"), Bytes(" # {t}")}
BlankTexts ==
    UNION {{Join(ls) \o e : ls \in [1..n -> BlankLines],
                            e \in {<<>>, Bytes(" "), Bytes("# c")}} :
           n \in 0..MaxBlank}

\* The options with n_sections = n: LSML_PARSE_ONE is Limited(1).
MaxSections == 2
Limited(n) == [ParseAll EXCEPT !.n_sections = n]

\* lsml_data_clear(data).
Clear ==
    /\ Settled
    /\ \E s \in {lsml_data_clear(State)} :
        /\ Commit(s)
        /\ hist' = hist
        /\ ret' = [op |-> "clear", pre |-> State]

\* A document made by the API or by an earlier parse, or none yet.
Fresh == hist.sections = {} /\ hist.parses = 0

Seeded == hist.parses = 1 /\ ret.op = "parse" /\ ret.in = TextTable

NextParse ==
    \/ Fresh /\ \E type \in {LSML_TABLE, LSML_ARRAY}, name \in TableNames :
                    AddSection(type, name)
    \/ (hist.parses = 0 \/ Seeded) /\ Clear
    \/ (hist.parses = 0 \/ Seeded) /\
          \E call \in
              {<<in, ParseAll>> : in \in LineTexts \cup ErrorTexts \cup BlankTexts}
              \cup {<<in, Aborting(n)>> : in \in ErrorTexts, n \in 1..MaxAbort}
              \cup (IF Fresh \/ Seeded
                    THEN {<<in, Filtering>> : in \in LineTexts}
                    ELSE {})
              \cup (IF Fresh
                    THEN {<<in, ParseAll>> :
                              in \in {TextTable} \cup RowTexts \cup CommaTexts}
                         \cup {<<in, Limited(n)>> :
                                   in \in LineTexts, n \in 1..MaxSections}
                    ELSE {}) :
              Parse(call[1], call[2])

SpecParse == InitAnySize /\ [][NextParse]_vars

\* ----------------------------------------------- what the pushes amount to

\* The successful pushes made on an array, in order: [v, newrow].
Pushed(array) == hist.pushes[array]

PushedValues(p) == [i \in 1..Len(p) |-> p[i].v]

\* 0-based positions at which a row starts: 0, and every push with
\* start_new_row set that was made on a non-empty array.
RowStarts(p) == {0} \cup {i - 1 : i \in {j \in 2..Len(p) : p[j].newrow}}

SetMax(S) == CHOOSE x \in S : \A y \in S : y <= x
SetMin(S) == CHOOSE x \in S : \A y \in S : x <= y

RowStartOf(p, i) == SetMax({j \in RowStarts(p) : j <= i})
RowOf(p, i) == Cardinality({j \in RowStarts(p) : j <= i}) - 1
ColOf(p, i) == i - RowStartOf(p, i)
NumRows(p) == Cardinality(RowStarts(p))
RowWidth(p, r) == Cardinality({i \in 0..(Len(p) - 1) : RowOf(p, i) = r})
RowWidths(p) == {RowWidth(p, r) : r \in 0..(NumRows(p) - 1)}
\* The 0-based position of (row, col), -1 if there is no such cell.
CellAt(p, row, col) ==
    LET hit == {i \in 0..(Len(p) - 1) : RowOf(p, i) = row /\ ColOf(p, i) = col}
    IN  IF hit = {} THEN -1 ELSE CHOOSE i \in hit : TRUE

\* ------------------------------------------------------ value interpreting

\* The widths of int and of long long in bits; long is as wide as long long.
IntBits == 12
LongLongBits == 16

INT_MAX == 2^(IntBits - 1) - 1
INT_MIN == -INT_MAX - 1
UINT_MAX == 2^IntBits - 1
LLONG_MAX == 2^(LongLongBits - 1) - 1
LLONG_MIN == -LLONG_MAX - 1
ULLONG_MAX == 2^LongLongBits - 1
LONG_MAX == LLONG_MAX
LONG_MIN == LLONG_MIN
ULONG_MAX == ULLONG_MAX

\* What a magnitude is capped at while its digits are read: more than any
\* value of any of the types.
Huge == 10^8

\* The byte at position i of a null-terminated string.
CharAt(b, i) == IF i <= Len(b) THEN b[i] ELSE 0

\* isspace of the C library, in the "C" locale.
isspace(c) == c \in {Ord[" "], Ord["\t"], Ord["\n"], 11, 12, Ord["\r"]}

\* The value of a digit in bases up to 36; 99 for any other byte.
DigitVal(c) ==
    IF c \in Ord["0"]..Ord["9"] THEN c - Ord["0"]
    ELSE IF c \in Ord["a"]..Ord["z"] THEN c - Ord["a"] + 10
    ELSE IF c \in Ord["A"]..Ord["Z"] THEN c - Ord["A"] + 10
    ELSE 99

\* The digits of the base from position i on: where they end and the
\* magnitude they add to mag.
RECURSIVE Digits(_, _, _, _)
Digits(b, i, base, mag) ==
    IF DigitVal(CharAt(b, i)) < base
    THEN Digits(b, i + 1, base,
                IF mag * base + DigitVal(CharAt(b, i)) > Huge THEN Huge
                ELSE mag * base + DigitVal(CharAt(b, i)))
    ELSE [end |-> i, mag |-> mag]

RECURSIVE SkipSpaces(_, _)
SkipSpaces(b, i) == IF isspace(CharAt(b, i)) THEN SkipSpaces(b, i + 1) ELSE i

\* The subject sequence of strtoll and strtoull: white space, a sign, for
\* base 16 a 0x in front of a digit, and digits.  none: no digit was read.
Subject(b, base) ==
    With(SkipSpaces(b, 1), LAMBDA i :
    With(IF CharAt(b, i) \in {Ord["+"], Ord["-"]} THEN i + 1 ELSE i, LAMBDA j :
    With(IF /\ base = 16
            /\ CharAt(b, j) = Ord["0"]
            /\ CharAt(b, j + 1) \in {Ord["x"], Ord["X"]}
            /\ DigitVal(CharAt(b, j + 2)) < 16
         THEN j + 2 ELSE j, LAMBDA k :
    With(Digits(b, k, base, 0), LAMBDA d :
        [neg |-> CharAt(b, i) = Ord["-"], none |-> d.end = k,
         endptr |-> IF d.end = k THEN 1 ELSE d.end, mag |-> d.mag]))))

\* strtoll: the value, the position of endptr and whether errno is ERANGE.
strtoll(b, base) ==
    With(Subject(b, base), LAMBDA s :
        IF s.none THEN [v |-> 0, endptr |-> 1, erange |-> FALSE]
        ELSE IF s.neg
        THEN IF s.mag > LLONG_MAX + 1
             THEN [v |-> LLONG_MIN, endptr |-> s.endptr, erange |-> TRUE]
             ELSE [v |-> -s.mag, endptr |-> s.endptr, erange |-> FALSE]
        ELSE IF s.mag > LLONG_MAX
             THEN [v |-> LLONG_MAX, endptr |-> s.endptr, erange |-> TRUE]
             ELSE [v |-> s.mag, endptr |-> s.endptr, erange |-> FALSE])

\* strtoull: a negative subject is negated in the unsigned type.
strtoull(b, base) ==
    With(Subject(b, base), LAMBDA s :
        IF s.none THEN [v |-> 0, endptr |-> 1, erange |-> FALSE]
        ELSE IF s.mag > ULLONG_MAX
        THEN [v |-> ULLONG_MAX, endptr |-> s.endptr, erange |-> TRUE]
        ELSE [v |-> IF s.neg THEN (ULLONG_MAX + 1 - s.mag) % (ULLONG_MAX + 1)
                    ELSE s.mag,
              endptr |-> s.endptr, erange |-> FALSE])

RECURSIVE Pow10(_)
Pow10(n) == IF n = 0 THEN 1 ELSE IF 10 * Pow10(n - 1) > Huge THEN Huge
                                 ELSE 10 * Pow10(n - 1)

\* strtod of a decimal subject (digits, a fraction, an exponent), as the
\* sign, the integer part of the magnitude and whether that is all of it.
strtod(b) ==
    With(SkipSpaces(b, 1), LAMBDA i :
    With(IF CharAt(b, i) \in {Ord["+"], Ord["-"]} THEN i + 1 ELSE i, LAMBDA j :
    With(Digits(b, j, 10, 0), LAMBDA int :
    With(IF CharAt(b, int.end) = Ord["."]
         THEN Digits(b, int.end + 1, 10, int.mag)
         ELSE int, LAMBDA frac :
    With(IF CharAt(b, int.end) = Ord["."] THEN frac.end - (int.end + 1) ELSE 0,
         LAMBDA places :
    With(IF CharAt(b, frac.end) \in {Ord["e"], Ord["E"]}
         THEN (IF CharAt(b, frac.end + 1) \in {Ord["+"], Ord["-"]}
               THEN frac.end + 2 ELSE frac.end + 1)
         ELSE frac.end, LAMBDA x :
    With(Digits(b, x, 10, 0), LAMBDA exp :
    With(IF x = frac.end \/ exp.end = x THEN 0
         ELSE IF CharAt(b, x - 1) = Ord["-"] THEN -exp.mag ELSE exp.mag,
         LAMBDA e :
    With(IF e - places >= 0
         THEN [whole |-> IF frac.mag * Pow10(e - places) > Huge THEN Huge
                         ELSE frac.mag * Pow10(e - places),
               exact |-> TRUE]
         ELSE [whole |-> frac.mag \div Pow10(places - e),
               exact |-> frac.mag % Pow10(places - e) = 0], LAMBDA d :
        [neg |-> CharAt(b, i) = Ord["-"], whole |-> d.whole, exact |-> d.exact,
         endptr |-> IF (int.end - j) + places = 0 THEN 1
                    ELSE IF x = frac.end \/ exp.end = x THEN frac.end
                    ELSE exp.end])))))))))

\* The loop that skips the leading white space of the value.
RECURSIVE StripSpace(_)
StripSpace(b) ==
    IF lsml_isspace(CharAt(b, 1)) /\ Len(b) > 0 THEN StripSpace(Tail(b)) ELSE b

\* The base a prefix letter selects; 10 for any other byte.
BaseOf(c) ==
    IF c \in {Ord["x"], Ord["X"]} THEN 16
    ELSE IF c \in {Ord["o"], Ord["O"]} THEN 8
    ELSE IF c \in {Ord["b"], Ord["B"]} THEN 2
    ELSE 10

\* The prefix of a signed value: the base, whether it is negated after the
\* digits are read, and the string without the prefix.
SignedPrefix(b) ==
    IF Len(b) >= 3 /\ b[1] = Ord["-"] /\ b[2] = Ord["0"]
    THEN [base |-> BaseOf(b[3]), negative |-> BaseOf(b[3]) # 10,
          str |-> IF BaseOf(b[3]) # 10 THEN SubSeq(b, 4, Len(b)) ELSE b]
    ELSE IF Len(b) >= 2 /\ b[1] = Ord["0"]
    THEN [base |-> BaseOf(b[2]), negative |-> FALSE,
          str |-> IF BaseOf(b[2]) # 10 THEN SubSeq(b, 3, Len(b)) ELSE b]
    ELSE [base |-> 10, negative |-> FALSE, str |-> b]

UnsignedPrefix(b) ==
    IF Len(b) >= 2 /\ b[1] = Ord["0"]
    THEN [base |-> BaseOf(b[2]), negative |-> FALSE,
          str |-> IF BaseOf(b[2]) # 10 THEN SubSeq(b, 3, Len(b)) ELSE b]
    ELSE [base |-> 10, negative |-> FALSE, str |-> b]

\* "probably a float": digits were read in base 10 and a point or an
\* exponent letter follows them.
ProbablyFloat(p, n) ==
    /\ n.endptr # 1
    /\ p.base = 10
    /\ CharAt(p.str, n.endptr) \in {Ord["."], Ord["e"], Ord["E"]}

\* What an interpreter leaves: the error it returns, whether it wrote *val,
\* and *val after the call.
Left(err, written, val) == [err |-> err, written |-> written, val |-> val]

\* v, endptr and errno after the float branch of lsml_toll.
SignedFloat(d) ==
    IF ~d.neg /\ (d.whole > LLONG_MAX \/ (d.whole = LLONG_MAX /\ ~d.exact))
    THEN [v |-> LLONG_MAX, endptr |-> d.endptr, erange |-> TRUE]
    ELSE IF d.neg /\ (d.whole > LLONG_MAX + 1
                        \/ (d.whole = LLONG_MAX + 1 /\ ~d.exact))
    THEN [v |-> LLONG_MIN, endptr |-> d.endptr, erange |-> TRUE]
    ELSE [v |-> IF d.neg THEN -d.whole ELSE d.whole, endptr |-> d.endptr,
          erange |-> ~d.exact]

\* The outcomes of lsml_toll on the bytes of str, val being what *val held.
\* Negating LLONG_MIN overflows: the build decides what comes of it.
lsml_toll(str, val) ==
    With(StripSpace(str), LAMBDA b :
    With(SignedPrefix(b), LAMBDA p :
    With(strtoll(p.str, p.base), LAMBDA n :
    With(IF ProbablyFloat(p, n) THEN SignedFloat(strtod(p.str)) ELSE n, LAMBDA f :
        IF Len(b) = 0 THEN {Left("VALUE_FORMAT", FALSE, val)}
        ELSE IF f.endptr = 1 THEN {Left("VALUE_FORMAT", FALSE, val)}
        ELSE {Left(IF f.erange THEN "VALUE_RANGE" ELSE "OK", TRUE, v) :
              v \in IF ~p.negative THEN {f.v}
                    ELSE IF f.v = LLONG_MIN THEN {LLONG_MIN, LLONG_MAX}
                    ELSE {-f.v}}))))

\* v, endptr and errno after the float branch of lsml_toull.  The cast to
\* long long of a value above LLONG_MAX is undefined: the build decides.
UnsignedFloat(d) ==
    IF ~d.neg /\ (d.whole > ULLONG_MAX \/ (d.whole = ULLONG_MAX /\ ~d.exact))
    THEN {[v |-> ULLONG_MAX, endptr |-> d.endptr, erange |-> TRUE]}
    ELSE IF d.neg /\ (d.whole > 0 \/ ~d.exact)
    THEN {[v |-> 0, endptr |-> d.endptr, erange |-> TRUE]}
    ELSE IF d.whole > LLONG_MAX
    THEN {[v |-> v, endptr |-> d.endptr, erange |-> ~(d.exact /\ v = d.whole)] :
          v \in {LLONG_MAX + 1, d.whole, 0}}
    ELSE {[v |-> d.whole, endptr |-> d.endptr, erange |-> ~d.exact]}

lsml_toull(str, val) ==
    With(StripSpace(str), LAMBDA b :
    With(UnsignedPrefix(b), LAMBDA p :
    With(strtoull(p.str, p.base), LAMBDA n :
        IF Len(b) = 0 THEN {Left("VALUE_FORMAT", FALSE, val)}
        ELSE {IF f.endptr = 1 THEN Left("VALUE_FORMAT", FALSE, val)
              ELSE Left(IF f.erange THEN "VALUE_RANGE" ELSE "OK", TRUE, f.v) :
              f \in IF ProbablyFloat(p, n) THEN UnsignedFloat(strtod(p.str))
                    ELSE {n}})))

\* The body shared by lsml_toi and lsml_tol: the test on the error of the
\* 64-bit parser, then the clamping cast.
Narrowed(wide, val, min, max) ==
    {IF w.err # "VALUE_RANGE" THEN Left(w.err, FALSE, val)
     ELSE IF w.val < min THEN Left("VALUE_RANGE", TRUE, min)
     ELSE IF w.val > max THEN Left("VALUE_RANGE", TRUE, max)
     ELSE Left("OK", TRUE, w.val) : w \in wide}

lsml_toi(str, val) == Narrowed(lsml_toll(str, 0), val, INT_MIN, INT_MAX)

lsml_tol(str, val) == Narrowed(lsml_toll(str, 0), val, LONG_MIN, LONG_MAX)

lsml_tou(str, val) == Narrowed(lsml_toull(str, 0), val, 0, UINT_MAX)

lsml_toul(str, val) == Narrowed(lsml_toull(str, 0), val, 0, ULONG_MAX)

\* The interpreters of integers, by name.
Interpreters == {"toi", "tol", "toll", "tou", "toul", "toull"}

Interpreted(fn, str, val) ==
    CASE fn = "toi" -> lsml_toi(str, val)
      [] fn = "tol" -> lsml_tol(str, val)
      [] fn = "toll" -> lsml_toll(str, val)
      [] fn = "tou" -> lsml_tou(str, val)
      [] fn = "toul" -> lsml_toul(str, val)
      [] fn = "toull" -> lsml_toull(str, val)

\* One call of an interpreter on the bytes str, with val in *val.
Interpret(fn, str, val) ==
    /\ Settled
    /\ \E o \in Interpreted(fn, str, val) :
          ret' = [op |-> fn, str |-> str, was |-> val, err |-> o.err,
                  written |-> o.written, val |-> o.val]
    /\ UNCHANGED <<alloc, mem, data, hist>>

\* What is written in front of the digits, the digits, and what follows.
Prefixes ==
    {Bytes(""), Bytes("-"), Bytes(" "), Bytes("+"), Bytes("0x"), Bytes("-0x"),
     Bytes("-0X"), Bytes("-0b"), Bytes("-0o"), Bytes("-0x-")}
Bodies ==
    {Bytes(""), Bytes("0"), Bytes("1"), Bytes("10"), Bytes("7F"), Bytes("80"),
     Bytes("FF"), Bytes("7FF"), Bytes("800"), Bytes("801"), Bytes("7FFF"),
     Bytes("8000"), Bytes("8001"), Bytes("FFFF"), Bytes("10000"),
     Bytes("2047"), Bytes("2048"), Bytes("4095"), Bytes("4096"),
     Bytes("32767"), Bytes("32768"), Bytes("32769"), Bytes("65535"),
     Bytes("65536")}
Suffixes ==
    {Bytes(""), Bytes(".5"), Bytes(".0"), Bytes("e3"), Bytes("e"), Bytes("z")}

\* The values interpreted.
NumberTexts ==
    {pre \o body \o suf : pre \in Prefixes, body \in Bodies, suf \in Suffixes}

\* What *val holds before the call.
Priors == {0, 1}

NextValues ==
    \E fn \in Interpreters, str \in NumberTexts, val \in Priors :
        Interpret(fn, str, val)

SpecValues == Init /\ [][NextValues]_vars

\* ------------------------------------------------- reference interpreting

\* A string handed to lsml_toref is the first len bytes of buf, which a NUL
\* ends: cur and end are 1-based positions in buf, and `end - 1` is the
\* position of the last byte of the string.
\* `while (cur != (end-1) && lsml_isspace((int) *cur)) cur++;`
RECURSIVE RefSkip(_, _, _)
RefSkip(buf, cur, end) ==
    IF cur # end - 1 /\ lsml_isspace(CharAt(buf, cur))
    THEN RefSkip(buf, cur + 1, end) ELSE cur

\* The test that returns LSML_ERR_VALUE_FORMAT.
RefMalformed(buf, cur, end) ==
    \/ cur = end - 1
    \/ CharAt(buf, cur) = Ord["{"] /\ CharAt(buf, cur + 1) # Ord["}"]
    \/ CharAt(buf, cur) = Ord["["] /\ CharAt(buf, cur + 1) # Ord["]"]

\* `switch(*cur)`.
RefType(c) ==
    IF c = Ord["{"] THEN LSML_TABLE
    ELSE IF c = Ord["["] THEN LSML_ARRAY ELSE LSML_ANYSECTION

\* lsml_toref(str, ref_name, ref_type) with str = (buf, len) and both
\* pointers given: ref_name is [str, len], the position in buf and the
\* size_t length.
lsml_toref(buf, len, ref_name, ref_type) ==
    With(RefSkip(buf, 1, len + 1), LAMBDA cur :
        IF RefMalformed(buf, cur, len + 1)
        THEN [err |-> "VALUE_FORMAT", ref_name |-> ref_name, ref_type |-> ref_type]
        ELSE [err |-> "OK",
              ref_name |-> [str |-> cur + 2,
                            len |-> (len + 1 - (cur + 2)) % (ULLONG_MAX + 1)],
              ref_type |-> RefType(CharAt(buf, cur))])

NoName == [str |-> 0, len |-> 0]

\* One call of lsml_toref on the first len bytes of buf.
Toref(buf, len) ==
    /\ Settled
    /\ \E o \in {lsml_toref(buf, len, NoName, "none")} :
          ret' = [op |-> "toref", buf |-> buf, str |-> SubSeq(buf, 1, len),
                  err |-> o.err, ref_name |-> o.ref_name, ref_type |-> o.ref_type]
    /\ UNCHANGED <<alloc, mem, data, hist>>

\* Blanks, what stands where the prefix is expected, and what follows.
RefBlanks == {Bytes(""), Bytes(" "), Bytes("\t "), Bytes("\n")}
RefHeads ==
    {Bytes(""), Bytes("{}"), Bytes("[]"), Bytes("{"), Bytes("["), Bytes("{]"),
     Bytes("[}"), Bytes("}{"), Bytes("{ }"), Bytes("a"), Bytes("ab"), Bytes("=")}
RefTails == {Bytes(""), Bytes("a"), Bytes("t "), Bytes("{}a"), Bytes("}"), Bytes(" ")}
RefTexts == {b \o h \o n : b \in RefBlanks, h \in RefHeads, n \in RefTails}

NextRef == \E buf \in RefTexts : \E len \in 0..Len(buf) : Toref(buf, len)

SpecRef == Init /\ [][NextRef]_vars

\* ------------------------------------------------ what the adds amount to

\* The successful adds made on a table: [table, key, value].
Added(table) == {e \in hist.entries : e.table = table}

\* The number of rehashes a table of n entries has been through.
TableChunks(table) == mem[table].n_chunks

\* ----------------------------------------------------------------------- C1

\* The bytes of an interned record.
BytesOf(reg) == StrBytes(mem, reg)

\* C1: whatever sequence of lsml_data_add_section, lsml_table_add_entry,
\* lsml_array_push and lsml_parse interned them, and whether or not the
\* strings table was rehashed in between, two byte sequences got the same
\* handle exactly if they are byte-for-byte equal; the strings table holds at
\* most one record per byte sequence, and every handle returned is in it.
C1_InternUnique ==
    /\ \A x, y \in hist.regs : (x.h = y.h) <=> (x.b = y.b)
    /\ \A p, q \in Interned(State) : BytesOf(p) = BytesOf(q) => p = q
    /\ \A x \in hist.regs : x.h \in Interned(State)
    /\ Cardinality(Interned(State)) = data.n_strings

\* The parser interned a name the API had interned, and new strings, in a
\* parse that rehashed the strings table twice.
C1_Witness ==
    /\ ret.op = "parse"
    /\ ret.err = "OK"
    /\ \E x \in hist.sections : x.name \in ret.names_before
    /\ \E i \in DOMAIN ret.log : ret.log[i].err = "SECTION_NAME_REUSED"
    /\ ret.strings_chunks_before = 1
    /\ data.n_strings_chunks = 4
    /\ Cardinality(hist.regs \ ret.regs_before) >= 3

\* ----------------------------------------------------------------------- C2

\* The handle x.h still denotes an interned record with the bytes x.b and
\* their terminator.
Denotes(x) ==
    /\ x.h \in DOMAIN mem
    /\ mem[x.h].t = "regstr"
    /\ mem[x.h].len = Len(x.b)
    /\ mem[x.h].str \in DOMAIN mem
    /\ mem[mem[x.h].str].t = "bytes"
    /\ mem[mem[x.h].str].b = x.b \o <<0>>

\* The section pointer x.ptr still denotes the section of that name and type.
StillSection(x) ==
    /\ x.ptr \in DOMAIN mem
    /\ mem[x.ptr].t = "section"
    /\ SectionType(mem, x.ptr) = x.type
    /\ mem[x.ptr].str \in DOMAIN mem
    /\ \E r \in hist.regs : r.h = mem[x.ptr].str /\ r.b = x.name

\* C2: every string handle and every section pointer the document returned
\* or made still denotes the same object with the same bytes, after any
\* later allocation, temporary string of the parser or rehash, whether the
\* later operations succeeded or not.
C2_PointerStability ==
    /\ \A x \in hist.regs : Denotes(x)
    /\ \A x \in hist.made : StillSection(x)
    /\ \A x \in hist.sections : [ptr |-> x.ptr, type |-> x.type, name |-> x.name]
                                   \in hist.made

\* A parse that interned new strings and rehashed the strings table, on a
\* document that had handed out strings and sections before.
C2_Witness ==
    /\ ret.op = "parse"
    /\ ret.err = "OK"
    /\ ret.regs_before # {}
    /\ ret.names_before # {}
    /\ hist.regs # ret.regs_before
    /\ data.n_strings_chunks > ret.strings_chunks_before
    /\ "TABLE_KEY_REUSED" \in hist.logged

\* ---------------------------------------------------------------------- C11

\* The positions of the newlines of a text.
Newlines(in) == {p \in DOMAIN in : in[p] = Ord["\n"]}

\* The position at which line i starts; past the end of the text if there
\* is no line i.
LineStart(in, i) ==
    IF i = 1 THEN 1
    ELSE IF Cardinality(Newlines(in)) < i - 1 THEN Len(in) + 1
    ELSE 1 + CHOOSE p \in Newlines(in) :
                 Cardinality({q \in Newlines(in) : q <= p}) = i - 1

\* The positions at which the passes of the line loop began.
Resumed == {ret.starts[n] : n \in DOMAIN ret.starts}

\* C11: with a logger that never returns nonzero, lsml_parse returns OK
\* unless it returns OutOfMemory, whatever lines are malformed; every pass
\* of its line loop begins at the start of a line, and after an error is
\* logged on line i the next pass begins at the start of line i + 1.
C11_NeverAborts ==
    (ret.op = "parse" /\ ret.options.abort_at = 0 /\ ret.err # "OUT_OF_MEMORY") =>
        /\ ret.err = "OK"
        /\ \A p \in Resumed : p = 1 \/ ret.in[p - 1] = Ord["\n"]
        /\ \A n \in DOMAIN ret.log :
              LineStart(ret.in, ret.log[n].line + 1) <= Len(ret.in) =>
                  LineStart(ret.in, ret.log[n].line + 1) \in Resumed

\* Four lines of S3 were logged, and the array after them was parsed.
C11_Witness ==
    /\ ret.op = "parse"
    /\ ret.in = TextS3
    /\ ret.err = "OK"
    /\ Len(ret.log) = 4
    /\ \E x \in hist.made : x.type = LSML_ARRAY /\ lsml_section_len(State, x.ptr) = 5

\* ---------------------------------------------------------------------- C12

\* The document in an arena that the parse of the text in cannot exhaust:
\* a byte of input costs less than 128 bytes of arena.
Roomy(s, in) == [s EXCEPT !.alloc.size = @ + 128 * (Len(in) + 1)]

\* What the call of lsml_parse comes to when no allocation fails.
Unhindered == lsml_parse(Roomy(ret.pre, ret.in), ret.in, ret.options)

\* The call did what the unhindered call does: no allocation failed.
AsUnhindered(r) ==
    /\ ret.err = r.err
    /\ ret.log = r.parser.log
    /\ ret.at = r.parser.at
    /\ data = r.s.data
    /\ alloc.offset = r.s.alloc.offset

IsPrefix(a, b) == Len(a) <= Len(b) /\ a = SubSeq(b, 1, Len(a))

\* C12: a call of lsml_parse in which an allocation fails returns
\* OutOfMemory; up to the failure it logs what the unhindered call logs and
\* nothing else, and it reads no further than the unhindered call.
C12_OutOfMemoryBubblesUp ==
    ret.op = "parse" =>
        \A r \in {Unhindered} :
            \/ AsUnhindered(r)
            \/ /\ ret.err = "OUT_OF_MEMORY"
               /\ IsPrefix(ret.log, r.parser.log)
               /\ ret.at <= r.parser.at

\* What the code keeps of C12: the one failure that does not bubble up is
\* that of the section node in lsml_data_add_section_internal, which tests
\* `!was_created` before `node == NULL` and so reports SectionNameReused;
\* lsml_parse logs it, skips the section and goes on.
C12_ButForSectionNode ==
    ret.op = "parse" =>
        \A r \in {Unhindered} :
            \/ AsUnhindered(r)
            \/ /\ ret.err = "OUT_OF_MEMORY"
               /\ IsPrefix(ret.log, r.parser.log)
               /\ ret.at <= r.parser.at
            \/ \E n \in DOMAIN ret.log :
                  /\ ret.log[n].err = "SECTION_NAME_REUSED"
                  /\ IsPrefix(SubSeq(ret.log, 1, n - 1), r.parser.log)
                  /\ ~IsPrefix(SubSeq(ret.log, 1, n), r.parser.log)

\* ---------------------------------------------------------------------- C13

\* The callback returned nonzero during the last parse.
Aborted ==
    /\ ret.op = "parse"
    /\ ret.options.abort_at > 0
    /\ Len(ret.log) >= ret.options.abort_at

\* C13: when the err-log callback returns nonzero for a reported error, of
\* any kind and from any place of the parser, lsml_parse returns
\* ParseAborted, calls no callback after it, and the document holds what it
\* held when the callback was called.
C13_AbortEnds ==
    Aborted =>
        /\ ret.err = "PARSE_ABORTED"
        /\ Len(ret.log) = ret.options.abort_at
        /\ Holds(State) = ret.marks[ret.options.abort_at]

\* The same, but for the code returned where the error aborted on is the
\* code point of an escape.
C13_ButForCodePoint ==
    Aborted =>
        /\ \/ ret.err = "PARSE_ABORTED"
           \/ /\ ret.err = "OUT_OF_MEMORY"
              /\ ret.in = TextEscapes
              /\ ret.log[Len(ret.log)].err = "TEXT_INVALID_ESCAPE"
        /\ Len(ret.log) = ret.options.abort_at
        /\ Holds(State) = ret.marks[ret.options.abort_at]

\* ---------------------------------------------------------------------- C14

\* The widths of the rows of an array, read off its list of row indices as
\* lsml_array_2d_size reads them; an array without elements has no row.
RECURSIVE WidthsLoop(_, _, _)
WidthsLoop(m, n_elems, row_index) ==
    IF row_index = NULL THEN <<>>
    ELSE <<(IF m[row_index].next # NULL THEN m[m[row_index].next].index
            ELSE n_elems) - m[row_index].index>>
         \o WidthsLoop(m, n_elems, m[row_index].next)

Widths(s, array) ==
    IF s.mem[array].n_elems = 0 THEN <<>>
    ELSE WidthsLoop(s.mem, s.mem[array].n_elems, s.mem[array].row_indices)

\* A line up to its comment, if it has one.
RECURSIVE StripComment(_)
StripComment(l) ==
    IF l = <<>> \/ Head(l) = Ord["#"] THEN <<>>
    ELSE <<Head(l)>> \o StripComment(Tail(l))

Blank(c) == c \in {Ord[" "], Ord["\t"], Ord["\r"]}

RECURSIVE TrimRight(_)
TrimRight(l) ==
    IF l # <<>> /\ Blank(l[Len(l)]) THEN TrimRight(SubSeq(l, 1, Len(l) - 1))
    ELSE l

\* The number of values written on an entry line of an array: the fields
\* its commas separate, not counting what follows a trailing comma.
ValuesOn(l) ==
    LET b == TrimRight(StripComment(l))
        commas == Cardinality({i \in DOMAIN b : b[i] = Ord[","]})
    IN  IF b = <<>> THEN 0
        ELSE IF b[Len(b)] = Ord[","] THEN commas
        ELSE commas + 1

\* The numbers of values on the lines after the first that have any.
WrittenWidths(in) ==
    LET lines == SplitLines(in, <<>>)
        HasValues(l) == ValuesOn(l) > 0
    IN  [i \in 1..Len(SelectSeq(Tail(lines), HasValues)) |->
            ValuesOn(SelectSeq(Tail(lines), HasValues)[i])]

\* The array `a` of the document.
TheArray == CHOOSE x \in hist.made : x.type = LSML_ARRAY /\ x.name = Bytes("a")

\* The last call parsed the rows of an array, all of them, and logged
\* nothing.
ParsedRows ==
    /\ ret.op = "parse"
    /\ ret.in \in RowTexts
    /\ ret.err = "OK"
    /\ ret.log = <<>>

\* C14: in an array section every entry line is one row: the parse of a
\* row reads no further than the newline of its line, so that a pass of the
\* line loop begins at the line after it, and the rows of the array are the
\* non-blank, non-comment entry lines, each as wide as its line has values,
\* whatever commas, blanks, carriage returns and comments end the lines.
C14_RowPerLine ==
    ParsedRows =>
        /\ \A i \in 2..Len(SplitLines(ret.in, <<>>)) :
              (ValuesOn(SplitLines(ret.in, <<>>)[i]) > 0
                  /\ LineStart(ret.in, i + 1) <= Len(ret.in)) =>
                      LineStart(ret.in, i + 1) \in Resumed
        /\ Widths(State, TheArray.ptr) = WrittenWidths(ret.in)

\* The same for the texts in which no comma is followed by a blank or a
\* carriage return before the end of its line.
CommaThenBlank(in) ==
    \E i \in 1..(Len(in) - 1) : in[i] = Ord[","] /\ Blank(in[i + 1])

C14_ButForCommaThenBlank ==
    (ParsedRows /\ ~CommaThenBlank(ret.in)) =>
        /\ \A i \in 2..Len(SplitLines(ret.in, <<>>)) :
              (ValuesOn(SplitLines(ret.in, <<>>)[i]) > 0
                  /\ LineStart(ret.in, i + 1) <= Len(ret.in)) =>
                      LineStart(ret.in, i + 1) \in Resumed
        /\ Widths(State, TheArray.ptr) = WrittenWidths(ret.in)

\* ---------------------------------------------------------------------- C15

\* The items cut into rows of the given widths.
RECURSIVE Cut(_, _)
Cut(items, widths) ==
    IF widths = <<>> THEN <<>>
    ELSE <<SubSeq(items, 1, Head(widths))>>
         \o Cut(SubSeq(items, Head(widths) + 1, Len(items)), Tail(widths))

\* The rows of an array: what lsml_array_next yields, row by row.
RowsOf(s, array) ==
    Cut(IterateArray(s, array, ZeroIter, <<>>, s.mem[array].n_elems + 1).items,
        Widths(s, array))

\* The fields written on a line: every comma ends a field, and what follows
\* the last comma is a field if it is not empty.
RECURSIVE Fields(_, _)
Fields(b, cur) ==
    IF b = <<>> THEN IF cur = <<>> THEN <<>> ELSE <<cur>>
    ELSE IF Head(b) = Ord[","] THEN <<cur>> \o Fields(Tail(b), <<>>)
    ELSE Fields(Tail(b), Append(cur, Head(b)))

\* The rows written on the lines after the first.
WrittenRows(in) ==
    LET lines == SplitLines(in, <<>>)
        HasFields(l) == Fields(StripComment(l), <<>>) # <<>>
    IN  [i \in 1..Len(SelectSeq(Tail(lines), HasFields)) |->
            Fields(StripComment(SelectSeq(Tail(lines), HasFields)[i]), <<>>)]

ParsedCommas ==
    /\ ret.op = "parse"
    /\ ret.in \in CommaTexts
    /\ ret.err = "OK"
    /\ ret.log = <<>>

\* C15: a row of n values and a final comma, ended by the end of the line,
\* by a comment or by the end of the input, pushes exactly the n values, and
\* an empty field between two commas (or before the first) pushes an empty
\* string: the rows of the array are the fields of the lines.
C15_TrailingComma ==
    ParsedCommas => RowsOf(State, TheArray.ptr) = WrittenRows(ret.in)

\* The row `7,,7,` was parsed at the end of the input.
C15_Witness ==
    /\ ParsedCommas
    /\ ret.in = Bytes("[a]\n7,,7,")
    /\ RowsOf(State, TheArray.ptr) = <<(<<Bytes("7"), <<>>, Bytes("7")>>)>>

\* ---------------------------------------------------------------------- C16

\* A line that lsml_parse takes for a section header, for a comment or a
\* blank line, and for an entry: the lines here begin with no blank.
IsHeaderLine(l) ==
    /\ Len(l) >= 2
    /\ \/ l[1] = Ord["{"] /\ l[2] # Ord["}"]
       \/ l[1] = Ord["["] /\ l[2] # Ord["]"]

IsEntryLine(l) == TrimRight(l) # <<>> /\ l[1] # Ord["#"] /\ ~IsHeaderLine(l)

\* The name on a header `{n}` or `[n]`.
NameOn(l) == TrimRight(SubSeq(l, 2, Len(l) - 1))

\* The header on line h makes no section: its name is empty, or it is the
\* name of a section of the document or of a header before it, or the
\* condition callback returns false for it.
Skipped(lines, h) ==
    \/ NameOn(lines[h]) = <<>>
    \/ NameOn(lines[h]) \in ret.names_before
    \/ ret.options.condition.present
          /\ NameOn(lines[h]) \notin ret.options.condition.accept
    \/ \E g \in 1..(h - 1) :
          IsHeaderLine(lines[g]) /\ NameOn(lines[g]) = NameOn(lines[h])

\* The entry lines between a skipped header and the next header.
UnderSkipped(lines) ==
    {i \in DOMAIN lines :
        /\ IsEntryLine(lines[i])
        /\ \E h \in 1..(i - 1) :
              /\ IsHeaderLine(lines[h])
              /\ Skipped(lines, h)
              /\ \A g \in (h + 1)..(i - 1) : ~IsHeaderLine(lines[g])}

\* The text of the lines but those whose number is in gone.
RECURSIVE Without(_, _, _)
Without(lines, gone, i) ==
    IF i > Len(lines) THEN <<>>
    ELSE (IF i \in gone THEN <<>> ELSE lines[i] \o <<Ord["\n"]>>)
         \o Without(lines, gone, i + 1)

\* The call left the document as the call r of lsml_parse left it.
SameDocument(r) ==
    /\ data = r.s.data
    /\ alloc = r.s.alloc
    /\ mem = r.s.mem

ParsedLines ==
    /\ ret.op = "parse"
    /\ ret.in \in LineTexts \cup {TextSections}
    /\ ret.options.abort_at = 0
    /\ ret.err = "OK"

\* C16: the entry lines between a skipped header (empty name, reused name,
\* or condition callback false) and the next header are ignored in silence:
\* none of them is logged, and the document is what the parse of the text
\* without them makes of it, whatever sections the document held before.
C16_SkippedSectionSilent ==
    ParsedLines =>
        \A lines \in {SplitLines(ret.in, <<>>)} :
            /\ \A n \in DOMAIN ret.log : ret.log[n].line \notin UnderSkipped(lines)
            /\ SameDocument(lsml_parse(ret.pre,
                                       Without(lines, UnderSkipped(lines), 1),
                                       ret.options))

\* The same for the documents that hold a section before the call.
C16_ButForEmptyDocument ==
    (ParsedLines /\ ret.pre.data.n_sections > 0) =>
        \A lines \in {SplitLines(ret.in, <<>>)} :
            /\ \A n \in DOMAIN ret.log : ret.log[n].line \notin UnderSkipped(lines)
            /\ SameDocument(lsml_parse(ret.pre,
                                       Without(lines, UnderSkipped(lines), 1),
                                       ret.options))

\* ---------------------------------------------------------------------- C17

\* The entry lines before the first header of the text.
Stray(lines) ==
    {i \in DOMAIN lines :
        IsEntryLine(lines[i]) /\ \A h \in 1..(i - 1) : ~IsHeaderLine(lines[h])}

\* The calls of the callback for line i.
LoggedAt(i) == {n \in DOMAIN ret.log : ret.log[n].line = i}

\* C17: every line before the first header of the text that is not blank,
\* a comment or a header is logged once, as TextOutsideSection, and stores
\* nothing: the document is what the parse of the text without these lines
\* makes of it, whether it held sections before the call or not.
C17_TextOutsideSection ==
    ParsedLines =>
        \A lines \in {SplitLines(ret.in, <<>>)} :
            /\ \A i \in Stray(lines) :
                  /\ Cardinality(LoggedAt(i)) = 1
                  /\ \A n \in LoggedAt(i) : ret.log[n].err = "TEXT_OUTSIDE_SECTION"
            /\ SameDocument(lsml_parse(ret.pre, Without(lines, Stray(lines), 1),
                                       ret.options))

\* The same for the documents that hold no section before the call.
C17_InEmptyDocument ==
    (ParsedLines /\ ret.pre.data.n_sections = 0) =>
        \A lines \in {SplitLines(ret.in, <<>>)} :
            /\ \A i \in Stray(lines) :
                  /\ Cardinality(LoggedAt(i)) = 1
                  /\ \A n \in LoggedAt(i) : ret.log[n].err = "TEXT_OUTSIDE_SECTION"
            /\ SameDocument(lsml_parse(ret.pre, Without(lines, Stray(lines), 1),
                                       ret.options))

\* ---------------------------------------------------------------------- C18

\* The header that line i is under: the last header line before it, 0 if
\* there is none.
HeaderAbove(lines, i) ==
    IF \E h \in 1..(i - 1) : IsHeaderLine(lines[h])
    THEN CHOOSE h \in 1..(i - 1) :
            /\ IsHeaderLine(lines[h])
            /\ \A g \in (h + 1)..(i - 1) : ~IsHeaderLine(lines[g])
    ELSE 0

HasEquals(l) == \E p \in DOMAIN l : l[p] = Ord["="]

\* The key of an entry line `key=value`.
RECURSIVE KeyOn(_)
KeyOn(l) ==
    IF l = <<>> \/ Head(l) = Ord["="] THEN <<>>
    ELSE <<Head(l)>> \o KeyOn(Tail(l))

\* The entry lines of the tables the text makes that have no `=`, or whose
\* key an earlier line of the table has.
SkippedEntries(lines) ==
    {i \in DOMAIN lines :
        /\ IsEntryLine(lines[i])
        /\ HeaderAbove(lines, i) # 0
        /\ \A h \in {HeaderAbove(lines, i)} \ {0} :
              /\ lines[h][1] = Ord["{"]
              /\ ~Skipped(lines, h)
              /\ \/ ~HasEquals(lines[i])
                 \/ \E j \in (h + 1)..(i - 1) :
                       /\ IsEntryLine(lines[j])
                       /\ HasEquals(lines[j])
                       /\ KeyOn(lines[j]) = KeyOn(lines[i])}

\* The headers with an empty or a reused name.
SkippedHeaders(lines) ==
    {h \in DOMAIN lines : IsHeaderLine(lines[h]) /\ Skipped(lines, h)}

\* The lines of the section whose header is on line h.
SectionOf(lines, h) ==
    {i \in h..Len(lines) : \A g \in (h + 1)..i : ~IsHeaderLine(lines[g])}

\* The call r of lsml_parse left the same sections with the same contents
\* and the same arena usage as the last call.
SameContents(r) ==
    /\ data = r.s.data
    /\ alloc.offset = r.s.alloc.offset
    /\ hist.made = r.s.hist.made
    /\ \A x \in hist.made :
          IF x.type = LSML_TABLE
          THEN Entries(State, x.ptr) = Entries(r.s, x.ptr)
          ELSE RowsOf(State, x.ptr) = RowsOf(r.s, x.ptr)

\* The parse of the text of the last call without the lines in gone.
ParseWithout(lines, gone) ==
    lsml_parse(ret.pre, Without(lines, gone, 1), ret.options)

\* The last call parsed all its lines with no condition callback, and no
\* allocation failed.
ParsedAllLines ==
    /\ ParsedLines
    /\ ~ret.options.condition.present
    /\ AsUnhindered(Unhindered)

\* C18: every skipped section (empty or reused name) and every skipped
\* entry (no `=`, or a reused key) is logged once, on its line, and leaves
\* no trace: the sections, their contents and the arena usage are what the
\* parse of the text without the entry line, or without the lines of the
\* skipped section, leaves.
C18_NoTrace ==
    ParsedAllLines =>
        \A lines \in {SplitLines(ret.in, <<>>)} :
            /\ \A i \in SkippedEntries(lines) \cup SkippedHeaders(lines) :
                  Cardinality(LoggedAt(i)) = 1
            /\ \A i \in SkippedEntries(lines) :
                  SameContents(ParseWithout(lines, {i}))
            /\ \A h \in SkippedHeaders(lines) :
                  SameContents(ParseWithout(lines, SectionOf(lines, h)))

\* The same for the texts other than TextSections, whose reused header is
\* reached when the map of sections is due to grow.
C18_ButForRehash ==
    (ParsedAllLines /\ ret.in # TextSections) =>
        \A lines \in {SplitLines(ret.in, <<>>)} :
            /\ \A i \in SkippedEntries(lines) \cup SkippedHeaders(lines) :
                  Cardinality(LoggedAt(i)) = 1
            /\ \A i \in SkippedEntries(lines) :
                  SameContents(ParseWithout(lines, {i}))
            /\ \A h \in SkippedHeaders(lines) :
                  SameContents(ParseWithout(lines, SectionOf(lines, h)))

\* --------------------------------------------------------------- C19, C20

\* The last call parsed the text of scenario S3 into a document without
\* sections, with a logger that never aborts, and no allocation failed.
ParsedS3 ==
    /\ ret.op = "parse"
    /\ ret.in = TextS3
    /\ ret.options.abort_at = 0
    /\ ret.pre.data.n_sections = 0
    /\ ret.err = "OK"
    /\ AsUnhindered(Unhindered)

\* C19 as stated: the four errors of S3 are delivered at lines 1, 4, 6, 7.
C19_AsStated ==
    ParsedS3 =>
        ret.log = <<[err |-> "TEXT_OUTSIDE_SECTION", line |-> 1],
                    [err |-> "TABLE_ENTRY_MISSING_EQUALS", line |-> 4],
                    [err |-> "TABLE_KEY_REUSED", line |-> 6],
                    [err |-> "SECTION_NAME_REUSED", line |-> 7]>>

\* C19: the parse of S3 delivers exactly four errors, each with the number
\* of the line it is on: TextOutsideSection at line 1 (`stray text`),
\* TableEntryMissingEquals at line 3 (`k v`), TableKeyReused at line 5
\* (`k=2`) and SectionNameReused at line 6 (the second `{t}`).
C19_S3Errors ==
    ParsedS3 =>
        ret.log = <<[err |-> "TEXT_OUTSIDE_SECTION", line |-> 1],
                    [err |-> "TABLE_ENTRY_MISSING_EQUALS", line |-> 3],
                    [err |-> "TABLE_KEY_REUSED", line |-> 5],
                    [err |-> "SECTION_NAME_REUSED", line |-> 6]>>

\* S3 was parsed to its end, ten lines, in the larger buffer.
C19_Witness ==
    /\ ParsedS3
    /\ ret.pre.alloc.size = BufSize
    /\ ret.at = Len(TextS3) + 1
    /\ Len(ret.log) = 4
    /\ ret.log[3] = [err |-> "TABLE_KEY_REUSED", line |-> 5]

\* The sections the document holds, by name and type.
Held == {[name |-> x.name, type |-> x.type] : x \in hist.made}

\* The section of the document with the name.
Named(name) == CHOOSE x \in hist.made : x.name = name

\* C20: the parse of S3 leaves exactly two sections: the table `t` with
\* the one entry (k, 1), and the array `a` with the five elements 1, 2, 3,
\* 4, 5 in two rows of widths 3 and 2.
C20_S3Document ==
    ParsedS3 =>
        /\ data.n_sections = 2
        /\ Held = {[name |-> Bytes("t"), type |-> LSML_TABLE],
                   [name |-> Bytes("a"), type |-> LSML_ARRAY]}
        /\ Entries(State, Named(Bytes("t")).ptr)
              = {[key |-> Bytes("k"), value |-> Bytes("1")]}
        /\ lsml_section_len(State, Named(Bytes("a")).ptr) = 5
        /\ RowsOf(State, Named(Bytes("a")).ptr)
              = <<(<<Bytes("1"), Bytes("2"), Bytes("3")>>),
                  (<<Bytes("4"), Bytes("5")>>)>>

\* S3 was parsed, and its array has rows of widths 3 and 2.
C20_Witness ==
    /\ ParsedS3
    /\ Cardinality(hist.made) = 2
    /\ Widths(State, Named(Bytes("a")).ptr) = <<3, 2>>

\* ---------------------------------------------------------------------- C21

\* The header lines of a text, and the k-th of them.
HeaderLines(lines) == {h \in DOMAIN lines : IsHeaderLine(lines[h])}

NthHeader(lines, k) ==
    CHOOSE h \in HeaderLines(lines) :
        Cardinality({g \in HeaderLines(lines) : g <= h}) = k

\* The lines that a call with n_sections = n parses: those before the
\* header after the n-th, all of them if there is no such header.
Within(lines, n) ==
    IF Cardinality(HeaderLines(lines)) > n
    THEN 1..(NthHeader(lines, n + 1) - 1)
    ELSE DOMAIN lines

\* The last call was made with n_sections > 0 and no callback but the
\* logger.
ParsedLimited ==
    /\ ret.op = "parse"
    /\ ret.in \in LineTexts
    /\ ret.options.n_sections > 0
    /\ ~ret.options.condition.present
    /\ ret.options.abort_at = 0

\* C21: a call with n_sections = n > 0 does what the unlimited call does
\* on the lines before the (n+1)-th header of the text: the same return,
\* the same log and the same document, so every entry of the first n
\* sections is parsed and nothing of the (n+1)-th header or after it; it
\* returns OK with that header as its current character unless an error
\* ended it before.  With n_sections = 0 a call that returns OK has read the
\* whole text.
C21_AtMostN ==
    /\ ParsedLimited =>
          \A lines \in {SplitLines(ret.in, <<>>)} :
          \A r \in {lsml_parse(ret.pre,
                                Without(lines, DOMAIN lines
                                                 \ Within(lines, ret.options.n_sections), 1),
                                ParseAll)} :
              /\ ret.err = r.err
              /\ ret.log = r.parser.log
              /\ SameDocument(r)
              /\ (Cardinality(HeaderLines(lines)) > ret.options.n_sections
                    /\ r.err = "OK") =>
                      ret.at = LineStart(ret.in,
                                         NthHeader(lines, ret.options.n_sections + 1))
    /\ (ret.op = "parse" /\ ret.options.n_sections = 0 /\ ret.err = "OK") =>
          ret.at = Len(ret.in) + 1

\* A call with n_sections = 1 parsed the entry of the table and stopped at
\* the header of the array.
C21_Witness ==
    /\ ParsedLimited
    /\ ret.options.n_sections = 1
    /\ ret.in = Join(<<Bytes("{t}"), Bytes("k=1"), Bytes("[a]")>>)
    /\ ret.err = "OK"
    /\ data.n_sections = 1
    /\ Entries(State, Named(Bytes("t")).ptr) = {[key |-> Bytes("k"), value |-> Bytes("1")]}

\* ---------------------------------------------------------------------- C22

\* C22: after lsml_data_clear the document is as lsml_data_new left it: it
\* counts no section, its memory usage is that of a new document, its maps
\* are those of a new document, and no section made before is found.
C22_ClearResets ==
    ret.op = "clear" =>
        /\ data.n_sections = 0
        /\ alloc = lsml_data_new(alloc.size).alloc
        /\ data = lsml_data_new(alloc.size).data
        /\ \A x \in hist.made :
              lsml_data_get_section(State, x.type, x.name, Len(x.name)).err
                  = "NOT_FOUND"

\* What the code keeps of C22: the call changes the arena cursor, to the
\* end of the lsml_data_t, and nothing else.
C22_CursorOnly ==
    ret.op = "clear" =>
        /\ alloc = [ret.pre.alloc EXCEPT !.offset = SizeofData]
        /\ data = ret.pre.data
        /\ mem = ret.pre.mem
        /\ alloc.offset < lsml_data_new(alloc.size).alloc.offset

\* ---------------------------------------------------------------------- C23

\* A text of nothing but blanks, newlines and comments.
OnlyBlank(in) ==
    \A lines \in {SplitLines(in, <<>>)} :
        \A i \in DOMAIN lines : TrimRight(StripComment(lines[i])) = <<>>

\* C23: the parse of a text that is empty or holds only blanks, blank
\* lines and comments returns OK, calls the logger not once, and leaves
\* the sections, the strings and the arena as they were before the call.
C23_NothingToParse ==
    (ret.op = "parse" /\ OnlyBlank(ret.in)) =>
        /\ ret.err = "OK"
        /\ ret.log = <<>>
        /\ data = ret.pre.data
        /\ alloc = ret.pre.alloc
        /\ mem = ret.pre.mem

\* A text of blank lines and comments was parsed to its end into a
\* document that holds a section.
C23_Witness ==
    /\ ret.op = "parse"
    /\ ret.err = "OK"
    /\ ret.in = Bytes("\t\r\n # {t}\n# c")
    /\ ret.pre.data.n_sections = 1
    /\ ret.at = Len(ret.in) + 1

\* ---------------------------------------------------------------------- C24

\* n elements in n_chunks chunks of buckets are within the load factor 0.8.
LoadFactorKept(n, n_chunks) == 5 * n <= 4 * n_chunks * LSML_CHUNK_LEN

\* The map passed the test of lsml_hm_rehash_if_needed with the elements
\* it held when the last of its n elements was inserted.
PassedBefore(n, n_chunks) ==
    n = 0 \/ WithinLoad(n - 1, n_chunks * LSML_CHUNK_LEN)

\* C24: after every operation the map of sections, the map of strings and
\* every table hold no more elements than 0.8 times their buckets.
C24_LoadFactor ==
    Settled =>
        /\ LoadFactorKept(data.n_sections, data.n_section_chunks)
        /\ LoadFactorKept(data.n_strings, data.n_strings_chunks)
        /\ \A x \in Tables : LoadFactorKept(mem[x.ptr].n_elems, mem[x.ptr].n_chunks)

\* What the code keeps of C24: the map of sections and the tables are
\* grown before an insertion, by the count before it, so that they passed
\* the test with one element less; the map of strings is not grown by
\* lsml_table_add_entry and lsml_array_push at all.
C24_ButLagging ==
    Settled =>
        /\ PassedBefore(data.n_sections, data.n_section_chunks)
        /\ \A x \in Tables : PassedBefore(mem[x.ptr].n_elems, mem[x.ptr].n_chunks)

\* ----------------------------------------------------------------------- C25

\* The nodes of a hashmap with the key and the value each holds.
Held25(m, nodes) ==
    {[node |-> node, str |-> m[node].str, value |-> m[node].value] :
     node \in nodes}

\* The chunks of a chunk array, from header on.
RECURSIVE ChunksFrom(_, _)
ChunksFrom(m, cha) ==
    IF cha = NULL THEN <<>> ELSE <<cha>> \o ChunksFrom(m, m[cha].next)

\* Every node of the map sits in the chain of the bucket its hash selects
\* among n_chunks chunks, and nowhere else.
WellPlaced(m, header, n_chunks) ==
    \A index \in 0..(n_chunks * LSML_CHUNK_LEN - 1) :
        \A addr \in {lsml_cha_get_bucket(m, header, n_chunks, index)} :
            /\ addr.chunk # NULL
            /\ \A node \in ChainNodes(m, m[addr.chunk].elems[addr.i]) :
                   HashIndex(m[m[node].str].hash, n_chunks * LSML_CHUNK_LEN) = index

\* "a", "b", "c", "f", "g": under four buckets "b", "c", "f" and "g" sit in
\* the second chunk, and under eight "f" and "g" leave it for the fourth.
RehashKeys == {<<97>>, <<98>>, <<99>>, <<102>>, <<103>>}

\* One table is made and entries are added to it until it has been rehashed
\* twice.
NextRehash ==
    \/ hist.sections = {} /\ \E name \in TableNames : AddSection(LSML_TABLE, name)
    \/ \E x \in Handed(LSML_TABLE), key \in RehashKeys, value \in Values :
          TableAdd(x.ptr, key, value)

SpecRehash == Init /\ [][NextRehash]_vars

\* The last lsml_table_add_entry rehashed the table it added to.
RehashedTable ==
    /\ ret.op = "table_add"
    /\ ret.pre.mem[ret.section].n_chunks > 0
    /\ TableChunks(ret.section) # ret.pre.mem[ret.section].n_chunks

\* C25: a rehash doubles the bucket count and appends that many chunks to
\* the chain, whose original chunks stay where they were; every node the map
\* held is still a node of it, at its address, with its key and its value;
\* every node sits once, in the bucket its hash selects; every entry the
\* table held is found by lsml_table_get with its value.
C25_RehashDoubles ==
    /\ RehashedTable =>
          \A t \in {ret.section} :
          \A was \in {ret.pre.mem[t].n_chunks} :
              /\ TableChunks(t) = 2 * was
              /\ Len(ChunksFrom(mem, mem[t].section)) = 2 * was
              /\ SubSeq(ChunksFrom(mem, mem[t].section), 1, was)
                     = ChunksFrom(ret.pre.mem, ret.pre.mem[t].section)
              /\ Held25(ret.pre.mem, TableNodes(ret.pre, t))
                     \subseteq Held25(mem, TableNodes(State, t))
              /\ Cardinality(TableNodes(State, t)) = mem[t].n_elems
              /\ WellPlaced(mem, mem[t].section, mem[t].n_chunks)
              /\ \A e \in ret.before :
                     \A r \in {lsml_table_get(State, t, e.key, Len(e.key))} :
                         r.err = "OK" /\ r.value = e.value

\* The second rehash of a table: two chunks of buckets became four, and a
\* node moved out of the second chunk.
C25_Witness ==
    /\ RehashedTable
    /\ ret.err = "OK"
    /\ ret.pre.mem[ret.section].n_chunks = 2
    /\ \E node \in TableNodes(ret.pre, ret.section) :
          /\ HashIndex(mem[mem[node].str].hash, 2 * LSML_CHUNK_LEN) >= LSML_CHUNK_LEN
          /\ HashIndex(mem[mem[node].str].hash, 4 * LSML_CHUNK_LEN)
                # HashIndex(mem[mem[node].str].hash, 2 * LSML_CHUNK_LEN)

\* ----------------------------------------------------------------------- C26

\* A buffer in which a table of four entries cannot be rehashed: after the
\* fifth key is interned there is room for one of the two new chunks, or
\* for one more string.
TightBuf == 676

\* One table is filled until its rehash fails, each key with the value "a",
\* and read; then a section is added beside it.
NextTight ==
    \/ hist.sections = {} /\ \E name \in TableNames : AddSection(LSML_TABLE, name)
    \/ \E x \in Handed(LSML_TABLE), key \in TableKeys :
          TableAdd(x.ptr, key, <<97>>)
    \/ (ret.op = "table_add" /\ ret.err = "OUT_OF_MEMORY")
          /\ \E name \in ArrayNames : AddSection(LSML_ARRAY, name)
    \/ \E x \in Handed(LSML_TABLE), key \in TableKeys : TableGet(x.ptr, key)
    \/ \E x \in Handed(LSML_TABLE) : TableIterate(x.ptr)

SpecTight == InitSized(TightBuf) /\ [][NextTight]_vars

\* The document once lsml_table_add_entry has interned the key and the
\* value, before it rehashes the table.
AfterStrings(s, key, value) ==
    lsml_data_register_string(
        lsml_data_register_string(s, [ptr |-> NULL, b |-> key], Len(key), FALSE).s,
        [ptr |-> NULL, b |-> value], Len(value), FALSE).s

\* The chunks the rehash of the table was given before it ran out of memory.
Grown(s, table) ==
    RehashGrow(s.alloc, s.mem, s.mem[table].last_chunk, s.mem[table].n_chunks)

\* The last lsml_table_add_entry ran out of memory in the rehash of its
\* table, after the rehash had been given at least one chunk.
FailedPartWay ==
    /\ ret.op = "table_add"
    /\ ret.err = "OUT_OF_MEMORY"
    /\ ret.pre.mem[ret.section].n_chunks > 0
    /\ ~WithinLoad(ret.pre.mem[ret.section].n_elems,
                   ret.pre.mem[ret.section].n_chunks * LSML_CHUNK_LEN)
    /\ \A s \in {AfterStrings(ret.pre, ret.key, ret.value)} :
          /\ ~Grown(s, ret.section).ok
          /\ Grown(s, ret.section).cha # s.mem[ret.section].last_chunk

\* C26: a rehash that fails after it was given some of its chunks puts the
\* arena cursor back where it was and leaves the bucket count, the chain of
\* chunks and the entries as they were; from then on, whatever is allocated
\* in the memory given back, every key is looked up as before and an
\* iteration yields the entries added, each once, and nothing else.
C26_RolledBack ==
    /\ FailedPartWay =>
          \A t \in {ret.section} :
              /\ alloc.offset = AfterStrings(ret.pre, ret.key, ret.value).alloc.offset
              /\ mem[t].n_chunks = ret.pre.mem[t].n_chunks
              /\ mem[t].last_chunk = ret.pre.mem[t].last_chunk
              /\ ChunksFrom(mem, mem[t].section)
                     = ChunksFrom(ret.pre.mem, ret.pre.mem[t].section)
              /\ Entries(State, t) = ret.before
    /\ ret.op = "table_get" =>
          \A hit \in {{e \in Added(ret.section) : e.key = ret.key}} :
              IF hit = {} THEN ret.err = "NOT_FOUND"
              ELSE ret.err = "OK" /\ \A e \in hit : ret.value = e.value
    /\ ret.op = "table_next" =>
          /\ ~ret.more
          /\ Len(ret.items) = Cardinality(Added(ret.section))
          /\ {[table |-> ret.section, key |-> ret.items[i].key,
               value |-> ret.items[i].value] : i \in DOMAIN ret.items}
                 = Added(ret.section)

\* What the failed rehash does keep: the cursor, the bucket count, the tail
\* and the buckets of the chunks counted, hence the lookups.
C26_ButForChain ==
    /\ FailedPartWay =>
          \A t \in {ret.section} :
              /\ alloc.offset = AfterStrings(ret.pre, ret.key, ret.value).alloc.offset
              /\ mem[t].n_chunks = ret.pre.mem[t].n_chunks
              /\ mem[t].last_chunk = ret.pre.mem[t].last_chunk
              /\ mem[mem[t].last_chunk].next >= alloc.offset
              /\ Entries(State, t) = ret.before
    /\ ret.op = "table_get" =>
          \A hit \in {{e \in Added(ret.section) : e.key = ret.key}} :
              IF hit = {} THEN ret.err = "NOT_FOUND"
              ELSE ret.err = "OK" /\ \A e \in hit : ret.value = e.value
    /\ (ret.op = "table_next" /\ ~ret.wild) =>
          /\ ~ret.more
          /\ Len(ret.items) = Cardinality(Added(ret.section))

\* ----------------------------------------------------------------------- C27

\* The last lsml_data_add_section, for a name that had no section, returned
\* OutOfMemory.
AddFailed ==
    /\ ret.op = "add_section"
    /\ ret.err = "OUT_OF_MEMORY"
    /\ lsml_data_get_section(ret.pre, LSML_ANYSECTION, ret.name,
                             Len(ret.name)).err = "NOT_FOUND"

\* No lookup and no iteration finds a section of that name.
Unfound(name) ==
    /\ \A desired \in {LSML_TABLE, LSML_ARRAY, LSML_ANYSECTION} :
          \A r \in {lsml_data_get_section(State, desired, name, Len(name))} :
              r.err = "NOT_FOUND" /\ r.section_found = NULL
    /\ \A r \in {IterateSections(State, ZeroIter, <<>>, Cardinality(SectionNames) + 2)} :
          /\ ~r.more /\ ~r.wild
          /\ \A i \in DOMAIN r.items :
                 StrBytes(mem, mem[r.items[i].section].str) # name

\* C27: after lsml_data_add_section returned OutOfMemory for a table or an
\* array, the section count is what it was before the call, and no section
\* of that name, of either type, is found by lsml_data_get_section or handed
\* out by lsml_data_next_section.
C27_NoPartialState ==
    AddFailed => data.n_sections = ret.n_before /\ Unfound(ret.name)

\* It is so for tables: the one allocation left after the section node is
\* that of the first row index of an array.
C27_ButForArray ==
    (AddFailed /\ ret.type = LSML_TABLE) =>
        data.n_sections = ret.n_before /\ Unfound(ret.name)

\* ----------------------------------------------------------------------- C28

\* "a" and "c" share the first of two buckets; of four, "c" has the third.
IterKeys == {<<97>>, <<98>>, <<99>>, <<100>>}

\* One table or one array is made; the caller iterates over it call by
\* call while entries are added to it.
NextIter ==
    \/ hist.sections = {} /\ \E name \in TableNames : AddSection(LSML_TABLE, name)
    \/ hist.sections = {} /\ \E name \in ArrayNames : AddSection(LSML_ARRAY, name)
    \/ \E x \in Handed(LSML_TABLE), key \in IterKeys : TableAdd(x.ptr, key, <<97>>)
    \/ \E x \in Handed(LSML_TABLE) : TableStep(x.ptr)
    \/ \E x \in Handed(LSML_ARRAY), newrow \in BOOLEAN :
          ArrayPush(x.ptr, <<97>>, newrow)
    \/ \E x \in Handed(LSML_ARRAY) : ArrayStep(x.ptr)

SpecIter == Init /\ [][NextIter]_vars

\* The number of times x was handed out.
Times(yielded, x) == Cardinality({i \in DOMAIN yielded : yielded[i] = x})

\* What the iterator handed out was in the container, nothing that was
\* there when the iteration began was handed out twice, and when the
\* iterator has come to the end all of it was handed out.
Kept(it) ==
    /\ it.valid
    /\ \A x \in it.began : Times(it.yielded, x) <= 1
    /\ it.done => \A x \in it.began : Times(it.yielded, x) = 1

\* C28: an iterator used call by call, with successful adds to its
\* container between the calls, rehashes included, hands out entries of the
\* container only, and every entry the container held when the iteration
\* began exactly once.
C28_IteratorsKept == hist.iter.kind # "none" => Kept(hist.iter)

\* It is so for arrays, where a push appends and moves nothing.
C28_ButForMaps == hist.iter.kind = "array" => Kept(hist.iter)

\* ----------------------------------------------------------------------- C29

\* The interpreters of the narrower types, the 64-bit parser each one calls
\* and the range of its type.
Narrow == {"toi", "tol", "tou", "toul"}
WideOf(fn) == IF fn \in {"toi", "tol"} THEN "toll" ELSE "toull"
MinOf(fn) ==
    CASE fn = "toi" -> INT_MIN
      [] fn = "tol" -> LONG_MIN
      [] fn = "toll" -> LLONG_MIN
      [] OTHER -> 0
MaxOf(fn) ==
    CASE fn = "toi" -> INT_MAX
      [] fn = "tol" -> LONG_MAX
      [] fn = "toll" -> LLONG_MAX
      [] fn = "tou" -> UINT_MAX
      [] fn = "toul" -> ULONG_MAX
      [] OTHER -> ULLONG_MAX

Clamped(v, min, max) == IF v < min THEN min ELSE IF v > max THEN max ELSE v

\* C29: lsml_toi, lsml_tol, lsml_tou and lsml_toul are the 64-bit parser
\* followed by a clamping cast: when the 64-bit parser returns Ok or
\* ValueRange, *val is written with its result clamped to the range of the
\* type, and the return is ValueRange if the 64-bit parser returned
\* ValueRange or the value was clamped, Ok otherwise; any other error of the
\* 64-bit parser is returned as it is.
C29_ClampingCast ==
    ret.op \in Narrow =>
        \E w \in Interpreted(WideOf(ret.op), ret.str, ret.was) :
        \E c \in {Clamped(w.val, MinOf(ret.op), MaxOf(ret.op))} :
            IF w.err \in {"OK", "VALUE_RANGE"}
            THEN /\ ret.written
                 /\ ret.val = c
                 /\ ret.err = IF w.err = "VALUE_RANGE" \/ c # w.val
                              THEN "VALUE_RANGE" ELSE "OK"
            ELSE ret.err = w.err

\* What the narrower interpreters do keep: a ValueRange they return comes
\* with the bound of the type the 64-bit result lies beyond, and a value
\* they write is the 64-bit result clamped.
C29_ButForOk ==
    ret.op \in Narrow =>
        \E w \in Interpreted(WideOf(ret.op), ret.str, ret.was) :
        \E c \in {Clamped(w.val, MinOf(ret.op), MaxOf(ret.op))} :
            /\ ret.written => ret.val = c /\ w.err = "VALUE_RANGE"
            /\ ret.err = "VALUE_RANGE" => ret.written /\ c # w.val
            /\ ~ret.written => ret.val = ret.was /\ ret.err = w.err

\* ----------------------------------------------------------------------- C30

Signed == {"toi", "tol", "toll"}

\* A '-', a base prefix and digits of that base, and nothing else.
NegativeLiteral(b) ==
    /\ Len(b) >= 4
    /\ b[1] = Ord["-"] /\ b[2] = Ord["0"] /\ BaseOf(b[3]) # 10
    /\ \A i \in 4..Len(b) : DigitVal(b[i]) < BaseOf(b[3])

\* The number its digits write.
Magnitude(b) == Digits(b, 4, BaseOf(b[3]), 0).mag

\* C30: a signed interpreter given a '-', a base prefix and digits writes
\* the negated value of the digits clamped to the range of its type: the
\* minimum with Ok when the digits write the magnitude of the minimum, the
\* minimum with ValueRange when they write more, and the negated value with
\* Ok when they write less.
C30_NegatedAndClamped ==
    (ret.op \in Signed /\ NegativeLiteral(ret.str)) =>
        /\ ret.written
        /\ ret.val = Clamped(-Magnitude(ret.str), MinOf(ret.op), MaxOf(ret.op))
        /\ ret.err = IF Magnitude(ret.str) > -MinOf(ret.op)
                     THEN "VALUE_RANGE" ELSE "OK"

\* What lsml_toll does: the digits are read as a positive long long, so the
\* magnitude of the minimum is out of range already, and what is negated is
\* the maximum.
C30_ButOneShort ==
    (ret.op = "toll" /\ NegativeLiteral(ret.str)) =>
        /\ ret.written
        /\ ret.val = -Clamped(Magnitude(ret.str), 0, LLONG_MAX)
        /\ ret.err = IF Magnitude(ret.str) > LLONG_MAX
                     THEN "VALUE_RANGE" ELSE "OK"

\* ----------------------------------------------------------------------- C31

\* The position of the first byte of str that is not whitespace, Len + 1
\* when there is none.
RECURSIVE FirstNonSpace(_, _)
FirstNonSpace(str, i) ==
    IF i <= Len(str) /\ lsml_isspace(str[i]) THEN FirstNonSpace(str, i + 1) ELSE i

\* The first two bytes of str that are not whitespace are {} or [].
IsRef(str) ==
    \E k \in {FirstNonSpace(str, 1)} :
        /\ k + 1 <= Len(str)
        /\ SubSeq(str, k, k + 1) \in {Bytes("{}"), Bytes("[]")}

\* The call reported the type the prefix stands for, and as name the bytes
\* after the prefix.
RefReported ==
    \E k \in {FirstNonSpace(ret.str, 1)} :
        /\ ret.err = "OK"
        /\ ret.ref_type = IF ret.str[k] = Ord["{"] THEN LSML_TABLE ELSE LSML_ARRAY
        /\ ret.ref_name = [str |-> k + 2, len |-> Len(ret.str) - (k + 1)]

\* C31: lsml_toref returns Ok for the strings whose first two non-whitespace
\* bytes are {} or [], with the type Table or Array and the bytes after
\* the prefix as the name, and ValueFormat for every other string, the
\* empty one included.
C31_RefOrFormat ==
    ret.op = "toref" =>
        IF IsRef(ret.str) THEN RefReported ELSE ret.err = "VALUE_FORMAT"

\* What the code keeps: a reference is reported as one, a ValueFormat is
\* given rightly and writes nothing, and the other strings that are
\* accepted are the empty one, read past its end, and strings of two bytes
\* or more, reported as LSML_ANYSECTION.
C31_ButForOthers ==
    ret.op = "toref" =>
        /\ IsRef(ret.str) => RefReported
        /\ ret.err = "VALUE_FORMAT" =>
              ~IsRef(ret.str) /\ ret.ref_name = NoName /\ ret.ref_type = "none"
        /\ (ret.err = "OK" /\ ~IsRef(ret.str)) =>
              \/ ret.str = <<>>
              \/ Len(ret.str) >= 2 /\ ret.ref_type = LSML_ANYSECTION

\* ----------------------------------------------------------------------- C32

\* Headers that a condition callback turns down or lets pass, the first
\* string of the call discarded or kept.
CursorTexts == {Bytes("{t}\nk v\n"), Bytes("{a}\nk=k\nk=a\n"), Bytes("[t]\n1,2\n")}

\* The four allocating operations on both buffers, up to MaxOps of them.
NextCursor ==
    \/ \E type \in {LSML_TABLE, LSML_ARRAY}, name \in TableNames \cup ArrayNames :
          Work < MaxOps /\ AddSection(type, name)
    \/ \E x \in Tables, key \in Values :
          Work < MaxOps /\ TableAdd(x.ptr, key, LaterValue)
    \/ \E x \in Handed(LSML_ARRAY), newrow \in BOOLEAN :
          Work < MaxOps /\ ArrayPush(x.ptr, LaterValue, newrow)
    \/ Work < MaxOps /\
          \E call \in {<<in, ParseAll>> : in \in {TextTable, TextArray, TextErrors}}
                       \cup {<<in, Filtering>> : in \in CursorTexts} :
              Parse(call[1], call[2])

SpecCursor == InitAnySize /\ [][NextCursor]_vars

\* The operations that allocate.
Allocating == {"add_section", "table_add", "array_push", "parse"}

\* C32: lsml_data_add_section, lsml_table_add_entry, lsml_array_push and
\* lsml_parse, failing or not, leave the arena cursor at or after the
\* position they found it at, and wherever they set it back inside the
\* call (a temporary string discarded, a failed allocation rolled back), it
\* is to a position at or after it.
C32_CursorMonotone ==
    [][ret'.op \in Allocating =>
          /\ alloc'.offset >= alloc.offset
          /\ hist'.low >= alloc.offset]_vars

\* A parse discarded a temporary string it had read after other strings
\* were interned, and went on allocating.
C32_Witness ==
    /\ ret.op = "parse"
    /\ ret.pre.alloc.offset < hist.low
    /\ hist.low < alloc.offset

\* ----------------------------------------------------------------------- C33

\* The first n_chunks chunks of a chunk array.
Chunks(m, header, n_chunks) ==
    IF header = NULL THEN {}
    ELSE {ChaWalk(m, header, i * LSML_CHUNK_LEN).chunk : i \in 0..(n_chunks - 1)}
             \ {NULL}

\* The row indices of an array, from row_index on.
RECURSIVE RowsFrom(_, _)
RowsFrom(m, row_index) ==
    IF row_index = NULL THEN {} ELSE {row_index} \cup RowsFrom(m, m[row_index].next)

\* What a section links: its chunks, and its table nodes or row indices.
SectionParts(m, x) ==
    Chunks(m, m[x].section, m[x].n_chunks)
        \cup RowsFrom(m, m[x].row_indices)
        \cup (IF m[x].row_indices = NULL
              THEN MapNodes(m, m[x].section, m[x].n_chunks) ELSE {})

\* The chunks, nodes, sections and interned records the document d links
\* in the buffer m.
Linked(m, d) ==
    Chunks(m, d.strings_head, d.n_strings_chunks)
        \cup Chunks(m, d.sections_head, d.n_section_chunks)
        \cup UNION {{n, m[n].str} :
                    n \in MapNodes(m, d.strings_head, d.n_strings_chunks)}
        \cup UNION {{x} \cup SectionParts(m, x) :
                    x \in MapNodes(m, d.sections_head, d.n_section_chunks)}

\* C33: whenever lsml_parse discards a temporary string, the cursor is set
\* back to the start of the string, and no chunk, node, section or interned
\* record that the document links lies in the region given back.
C33_DiscardReleasesNothing ==
    ret.op = "parse" =>
        \A i \in DOMAIN hist.discards :
            \A d \in {hist.discards[i]} :
                /\ d.to = d.string
                /\ d.to <= d.from
                /\ \A a \in Linked(d.mem, d.data) : a + d.mem[a].sz <= d.string

\* A parse discarded two strings or more, one of them read after the parse
\* had linked objects of its own.
C33_Witness ==
    /\ ret.op = "parse"
    /\ Len(hist.discards) >= 2
    /\ \E i \in DOMAIN hist.discards :
          \E a \in Linked(hist.discards[i].mem, hist.discards[i].data) :
              a >= ret.pre.alloc.offset

\* ----------------------------------------------------------------------- C34

\* What follows the backslash of an escape sequence, and what follows that.
Escapes ==
    {Bytes("n"), Bytes("t"), Bytes("\\"), Bytes("?"), Bytes("q"), Bytes("z"),
     Bytes("8"),
     Bytes("0"), Bytes("17"), Bytes("101"), Bytes("x"), Bytes("x4"),
     Bytes("x41"), Bytes("xg"), Bytes("u"), Bytes("u1"), Bytes("u12"),
     Bytes("u123"), Bytes("u0041"), Bytes("u00e9"), Bytes("U"), Bytes("U0041"),
     Bytes("U0001F600"), Bytes("U0010FFFF"), Bytes("U00110000"),
     Bytes("U1234567")}
EscapeEnds == {Bytes(""), Bytes("z"), Bytes("1"), Bytes(" ")}

\* The table t with the key k, its value the backtick string that holds a
\* backslash and b.
EscapeText(b) ==
    Bytes("{t}\nk=") \o BQ \o Bytes("\\") \o b \o BQ \o Bytes("\n")

NextEscapes ==
    \E e \in Escapes, z \in EscapeEnds : Fresh /\ Parse(EscapeText(e \o z), ParseAll)

SpecEscapes == Init /\ [][NextEscapes]_vars

IsHex(c) == lsml_hex_append(c, U32From(0)).ok

\* The number the hex digits b[from..to] write, to at most 8 of them below
\* 0x80000000.
RECURSIVE HexValue(_, _, _)
HexValue(b, from, to) ==
    IF to < from THEN 0
    ELSE 16 * HexValue(b, from, to - 1) + lsml_hex_append(b[to], U32From(0)).val.lo

\* b, the bytes after a backslash, begins a well-formed escape sequence:
\* a single-character escape, octal digits, x and two hex digits, u and
\* four, or U and eight that write a code point up to 0x10FFFF.
WellFormed(b) ==
    /\ b # <<>>
    /\ \/ b[1] \in DOMAIN SingleEscape
       \/ b[1] \in Ord["0"]..Ord["7"]
       \/ b[1] = Ord["x"] /\ \A i \in 2..3 : IsHex(CharAt(b, i))
       \/ b[1] = Ord["u"] /\ \A i \in 2..5 : IsHex(CharAt(b, i))
       \/ /\ b[1] = Ord["U"]
          /\ \A i \in 2..9 : IsHex(CharAt(b, i))
          /\ HexValue(b, 2, 9) <= 1114111

\* The bytes after the backslash of the string that was parsed.
Escaped == SubSeq(ret.in, 9, Len(ret.in) - 2)

InvalidEscapes == {i \in DOMAIN ret.log : ret.log[i].err = "TEXT_INVALID_ESCAPE"}

\* C34: a backtick string with a malformed escape sequence makes one
\* TextInvalidEscape and holds the characters of the sequence as they are
\* written, the backslash included; a string with a well-formed one makes
\* none.
C34_MalformedEscapes ==
    (ret.op = "parse" /\ ret.in = EscapeText(Escaped)) =>
        IF WellFormed(Escaped)
        THEN ret.log = <<>>
        ELSE /\ Cardinality(InvalidEscapes) = 1
             /\ Len(ret.log) = 1
             /\ Entries(State, Named(Bytes("t")).ptr)
                    = {[key |-> Bytes("k"), value |-> Bytes("\\") \o Escaped]}

\* The malformed sequences that are cut short after a hex digit was or could
\* have been read: x with one hex digit, u or U with too few.
CutShort(b) ==
    /\ b # <<>>
    /\ \/ b[1] = Ord["x"] /\ IsHex(CharAt(b, 2))
       \/ b[1] = Ord["u"] /\ \E i \in 2..5 : ~IsHex(CharAt(b, i))
       \/ b[1] = Ord["U"] /\ \E i \in 2..9 : ~IsHex(CharAt(b, i))

\* What the parser keeps of it: the sequences cut short are taken without
\* an error, every other malformed one makes the one error and is held as
\* written.
C34_ButForCutShort ==
    (ret.op = "parse" /\ ret.in = EscapeText(Escaped)) =>
        IF WellFormed(Escaped) \/ CutShort(Escaped)
        THEN ret.log = <<>>
        ELSE /\ Cardinality(InvalidEscapes) = 1
             /\ Len(ret.log) = 1
             /\ Entries(State, Named(Bytes("t")).ptr)
                    = {[key |-> Bytes("k"), value |-> Bytes("\\") \o Escaped]}

\* ----------------------------------------------------------------------- C35

\* lsml_table_next from a zeroed iterator until it returns 0, and once more.
TableWalk(table) ==
    /\ Settled
    /\ \E r \in {IterateTable(State, table, ZeroIter, <<>>, MaxEntries + 2)} :
        /\ ret' = [op |-> "table_next", section |-> table, items |-> r.items,
                   more |-> r.more, wild |-> r.wild,
                   again |-> lsml_table_next(State, table, r.iter).ret]
        /\ UNCHANGED <<alloc, mem, data, hist>>

\* lsml_data_next_section from a zeroed iterator until it returns 0, and
\* once more, and lsml_data_section_count.
SectionWalk ==
    /\ Settled
    /\ \E r \in {IterateSections(State, ZeroIter, <<>>, Cardinality(SectionNames) + 2)} :
        /\ ret' = [op |-> "next_section", items |-> r.items, more |-> r.more,
                   wild |-> r.wild,
                   again |-> lsml_data_next_section(State, r.iter).ret,
                   count |-> data.n_sections]
        /\ UNCHANGED <<alloc, mem, data, hist>>

\* Sections are added to a document; one that holds a single table has
\* entries added to it; the caller walks over the table or the sections.
NextWalk ==
    \/ hist.entries = {} /\ \E type \in {LSML_TABLE, LSML_ARRAY}, name \in SectionNames :
          AddSection(type, name)
    \/ Cardinality(hist.sections) = 1
          /\ \E x \in Handed(LSML_TABLE), key \in TableKeys : TableAdd(x.ptr, key, <<97>>)
    \/ \E x \in Handed(LSML_TABLE) : TableWalk(x.ptr)
    \/ SectionWalk

SpecWalk == Init /\ [][NextWalk]_vars

\* C35: in a document whose adds succeeded, the calls of lsml_table_next
\* from a zeroed iterator hand out every entry of the table once and nothing
\* else, the calls of lsml_data_next_section every section once, with the
\* type it was added with, as many as lsml_data_section_count counts; each
\* then returns 0, and returns 0 again when called once more.
C35_WalkExact ==
    /\ ret.op = "table_next" =>
          /\ ~ret.more /\ ~ret.wild /\ ret.again = 0
          /\ Len(ret.items) = Cardinality(Added(ret.section))
          /\ {[table |-> ret.section, key |-> ret.items[i].key,
               value |-> ret.items[i].value] : i \in DOMAIN ret.items}
                 = Added(ret.section)
    /\ ret.op = "next_section" =>
          /\ ~ret.more /\ ~ret.wild /\ ret.again = 0
          /\ Len(ret.items) = Cardinality(hist.sections)
          /\ Len(ret.items) = ret.count
          /\ {[ptr |-> ret.items[i].section, type |-> ret.items[i].section_type] :
                 i \in DOMAIN ret.items}
                 = {[ptr |-> x.ptr, type |-> x.type] : x \in hist.sections}

\* A table of five entries in more than one chunk was walked over, or four
\* sections of both types in more than one chunk.
C35_Witness ==
    \/ /\ ret.op = "table_next"
       /\ Len(ret.items) = 5
       /\ mem[ret.section].n_chunks > 1
    \/ /\ ret.op = "next_section"
       /\ Len(ret.items) = 4
       /\ data.n_section_chunks > 1
       /\ \E i, j \in DOMAIN ret.items :
             ret.items[i].section_type # ret.items[j].section_type

\* ----------------------------------------------------------------------- C36

\* The caller's array of n strings before the call, zeroed.
Zeroed(n) == [i \in 1..n |-> <<>>]

ArrayGetMany(array, start_index, n_elems) ==
    /\ Settled
    /\ \E o \in lsml_array_get_many(State, array, start_index, n_elems,
                                    Zeroed(n_elems)) :
          ret' = [op |-> "array_get_many", section |-> array,
                  start |-> start_index, n |-> n_elems, err |-> o.err,
                  values |-> o.values]
    /\ UNCHANGED <<alloc, mem, data, hist>>

\* One array is made, values are pushed to it and ranges of it are read.
NextMany ==
    \/ ArrayMutate
    \/ \E x \in Handed(LSML_ARRAY), start_index \in 0..(MaxPush + 1),
          n_elems \in 0..(MaxPush + 1) : ArrayGetMany(x.ptr, start_index, n_elems)

SpecMany == Init /\ [][NextMany]_vars

\* C36: lsml_array_get_many of a range that lies within the array returns
\* Ok with values[i] the element start + i, for every i below n; of a range
\* that goes out of bounds it returns NotFound and writes nothing.
C36_GetMany ==
    ret.op = "array_get_many" =>
        IF ret.start + ret.n <= Len(hist.pushes[ret.section])
        THEN /\ ret.err = "OK"
             /\ \A i \in 1..ret.n :
                    ret.values[i] = hist.pushes[ret.section][ret.start + i].v
        ELSE ret.err = "NOT_FOUND" /\ ret.values = Zeroed(ret.n)

\* What the call keeps: a range out of bounds, and any range that starts at
\* the end of the array, is NotFound with nothing written; an empty range
\* that starts within the array is Ok; no call hands out an element.
C36_ButForReads ==
    ret.op = "array_get_many" =>
        IF \/ ret.start + ret.n > Len(hist.pushes[ret.section])
           \/ ret.start >= Len(hist.pushes[ret.section])
        THEN ret.err = "NOT_FOUND" /\ ret.values = Zeroed(ret.n)
        ELSE IF ret.n = 0 THEN ret.err = "OK"
        ELSE \/ ret.err = "FAULT" /\ ret.values = Zeroed(ret.n)
             \/ ret.err = "OK" /\ \A i \in 1..ret.n : ret.values[i] = Garbage

\* ----------------------------------------------------------------------- C37

\* Buffers in which the pushes to an array run out of memory: at a string,
\* at a chunk, at a row index.
RowBuf == 320
RowBufs == {RowBuf + 8 * k : k \in 0..12}

NextRows ==
    \/ hist.sections = {} /\ \E name \in ArrayNames : AddSection(LSML_ARRAY, name)
    \/ \E x \in Handed(LSML_ARRAY), val \in Values, newrow \in BOOLEAN :
          ArrayPush(x.ptr, val, newrow)

SpecRows == (\E size \in RowBufs : InitSized(size)) /\ [][NextRows]_vars

\* The offsets the row indices of an array record, from row_index on.
RECURSIVE RowOffsets(_, _)
RowOffsets(m, row_index) ==
    IF row_index = NULL THEN <<>>
    ELSE <<m[row_index].index>> \o RowOffsets(m, m[row_index].next)

\* The width of row r: up to the next row start, or to the end of the array.
WidthOf(starts, len, r) ==
    (IF r < Len(starts) THEN starts[r + 1] ELSE len) - starts[r]

RECURSIVE SumWidths(_, _, _)
SumWidths(starts, len, r) ==
    IF r = 0 THEN 0 ELSE WidthOf(starts, len, r) + SumWidths(starts, len, r - 1)

RowsInOrder(starts, len) ==
    /\ starts # <<>> /\ starts[1] = 0
    /\ \A r \in 2..Len(starts) : starts[r - 1] < starts[r] /\ starts[r] < len
    /\ len > 0 => \A r \in DOMAIN starts : WidthOf(starts, len, r) >= 1
    /\ SumWidths(starts, len, Len(starts)) = len

\* C37: after any pushes to an array, failed ones included, its row starts
\* begin at 0, increase strictly and lie below its length, so that every row
\* of a non-empty array has an element and the widths add up to the length;
\* a push that asks for a new row on an empty array records no row start.
C37_RowIndex ==
    /\ \A x \in Handed(LSML_ARRAY) :
          RowsInOrder(RowOffsets(mem, mem[x.ptr].row_indices), mem[x.ptr].n_elems)
    /\ (ret.op = "array_push" /\ ret.err = "OK" /\ mem[ret.section].n_elems = 1) =>
          RowOffsets(mem, mem[ret.section].row_indices) = <<0>>

\* A push that was to start a row ran out of memory at the row index, after
\* rows were recorded; or the first push asked for a new row.
C37_Witness ==
    \/ /\ ret.op = "array_push" /\ ret.err = "OUT_OF_MEMORY"
       /\ Len(RowOffsets(mem, mem[ret.section].row_indices)) >= 2
       /\ mem[ret.section].n_elems < mem[ret.section].n_chunks * LSML_CHUNK_LEN
       /\ mem[mem[ret.section].last_chunk].elems[
              lsml_mod_chunklen(mem[ret.section].n_elems, LSML_CHUNK_LEN)] # NULL
    \/ /\ ret.op = "array_push" /\ ret.err = "OK" /\ mem[ret.section].n_elems = 1
       /\ hist.pushes[ret.section][1].newrow

\* ----------------------------------------------------------------------- C38

\* The hashmaps of the document: the map of sections, the map of strings and
\* the map of every table that has its first chunk.
HashMaps ==
    {[header |-> data.sections_head, n_chunks |-> data.n_section_chunks,
      n_elems |-> data.n_sections],
     [header |-> data.strings_head, n_chunks |-> data.n_strings_chunks,
      n_elems |-> data.n_strings]}
    \cup {[header |-> mem[x.ptr].section, n_chunks |-> mem[x.ptr].n_chunks,
           n_elems |-> mem[x.ptr].n_elems] :
          x \in {y \in Tables : mem[y.ptr].section # NULL}}

\* The number of chunks linked from cha on, as far as they are chunks.
RECURSIVE ChainLength(_, _, _)
ChainLength(m, cha, fuel) ==
    IF cha = NULL \/ fuel = 0 THEN 0
    ELSE IF ~Is(m, cha, "chunk") THEN 1
    ELSE 1 + ChainLength(m, m[cha].next, fuel - 1)

\* The lengths of the collision chains of a map, added up.
RECURSIVE ChainSum(_, _, _, _)
ChainSum(m, header, n_chunks, index) ==
    IF index < 0 THEN 0
    ELSE With(lsml_cha_get_bucket(m, header, n_chunks, index), LAMBDA addr :
             Cardinality(ChainNodes(m, m[addr.chunk].elems[addr.i]))
                 + ChainSum(m, header, n_chunks, index - 1))

\* Every node sits in one chain, that of its bucket; the number of chunks
\* is a power of two; the nodes are as many as the map counts.
MapInOrder(m, h) ==
    /\ WellPlaced(m, h.header, h.n_chunks)
    /\ ChainSum(m, h.header, h.n_chunks, h.n_chunks * LSML_CHUNK_LEN - 1)
           = Cardinality(MapNodes(m, h.header, h.n_chunks))
    /\ h.n_chunks \in {1, 2, 4, 8, 16}
    /\ Cardinality(MapNodes(m, h.header, h.n_chunks)) = h.n_elems

\* C38: after every operation, in every hashmap each node is linked in
\* exactly one chain, that of the bucket its cached hash selects; the chunks
\* counted are the chunk length times a power of two buckets, and the chain
\* of chunks holds exactly that many chunks; the element count is the number
\* of nodes linked.
C38_MapStructure ==
    \A h \in HashMaps :
        /\ MapInOrder(mem, h)
        /\ ChainLength(mem, h.header, 2 * h.n_chunks + 2) = h.n_chunks

\* All of it but the length of the chain of chunks, which a rehash that ran
\* out of memory leaves longer than the count.
C38_ButForChain ==
    \A h \in HashMaps :
        /\ MapInOrder(mem, h)
        /\ ChainLength(mem, h.header, 2 * h.n_chunks + 2) >= h.n_chunks

\* ----------------------------------------------------------------------- C39

\* Buffers from the smallest that holds an empty document up to one that
\* holds what the texts below make, byte by byte.
BrimBase == 137
BrimSpan == 200

\* A key with a reference prefix and a value with escape sequences that are
\* decoded, encoded as UTF-8 and copied as written; an array with quoted
\* and unquoted elements.
BrimTexts ==
    {Bytes("{t}\n{}k=") \o BQ \o Bytes("\\xg\\u00e9\\U0001F600\\q\\u12") \o BQ
         \o Bytes("\n"),
     Bytes("[m]\n[]b,'c d',e \n")}

NextBrim ==
    \/ Fresh /\ \E call \in {<<in, ParseAll>> : in \in BrimTexts} :
                    Parse(call[1], call[2])
    \/ hist.parses = 0
          /\ \E type \in {LSML_TABLE, LSML_ARRAY}, name \in TableNames \cup ArrayNames :
                 AddSection(type, name)

SpecBrim ==
    (\E size \in BrimBase..(BrimBase + BrimSpan) : InitSized(size)) /\ [][NextBrim]_vars

\* Nothing in the buffer, and no byte a string under construction was
\* written to (hist.high is the end of the furthest such write of the last
\* operation), lies beyond the size of the buffer, nor does the cursor.
WithinBuffer ==
    /\ \A a \in DOMAIN mem : a >= 0 /\ a + mem[a].sz <= alloc.size
    /\ hist.high <= alloc.size
    /\ alloc.offset <= alloc.size

\* The last operation was to add something that was not there and did not.
Refused ==
    \/ /\ ret.op = "add_section" /\ ret.err # "OK"
       /\ lsml_data_get_section(ret.pre, LSML_ANYSECTION, ret.name,
                                Len(ret.name)).err = "NOT_FOUND"
    \/ /\ ret.op = "table_add" /\ ret.err # "OK"
       /\ \A e \in ret.before : e.key # ret.key
    \/ ret.op = "array_push" /\ ret.err # "OK"

\* C39: no operation writes outside the buffer - the bytes of the strings
\* the parser builds, their terminators and every zeroed object lie below
\* its size, and so does the cursor - and an operation that lacks the space
\* returns OutOfMemory.
C39_BufferSafety ==
    /\ WithinBuffer
    /\ Refused => ret.err = "OUT_OF_MEMORY"

\* Nothing is written outside the buffer; the one operation that lacks the
\* space and returns something else is lsml_data_add_section, when the
\* section node does not fit.
C39_ButForError ==
    /\ WithinBuffer
    /\ (Refused /\ ret.err # "OUT_OF_MEMORY") =>
           ret.op = "add_section" /\ ret.err = "SECTION_NAME_REUSED"

\* ----------------------------------------------------------------------- C40

\* The calls lsml_parse made of the reader.
ReaderCalls == ret.at + 1

\* C40: lsml_parse returns on every text: every pass of its line loop
\* begins further on in the input than the pass before, the reader is
\* called at most two times more than the input has bytes, and once the end
\* of the input has been read as the current character no call follows.
C40_Terminates ==
    ret.op = "parse" =>
        /\ ReaderCalls <= Len(ret.in) + 2
        /\ ret.cur < 0 => ReaderCalls = Len(ret.in) + 2
        /\ \A i \in DOMAIN ret.starts :
              /\ ret.starts[i] \in 1..Len(ret.in)
              /\ i > 1 => ret.starts[i - 1] < ret.starts[i]

\* A text of several lines with an array row of several values was parsed
\* to its end.
C40_Witness ==
    /\ ret.op = "parse" /\ ret.err = "OK" /\ ret.cur < 0
    /\ Len(ret.starts) >= 3
    /\ \E x \in Handed(LSML_ARRAY) \cup {y \in hist.made : y.type = LSML_ARRAY} :
          mem[x.ptr].n_elems >= 3

\* ----------------------------------------------------------------------- C3

\* C3: lsml_table_get(T, k) returns the value of the successful
\* lsml_table_add_entry(T, k, _), and NotFound if no add for k succeeded,
\* after any sequence of adds, rehashes of the table included.
C3_TableGet ==
    ret.op = "table_get" =>
        LET hit == {e \in Added(ret.section) : e.key = ret.key}
        IN  IF hit = {}
            THEN ret.err = "NOT_FOUND"
            ELSE /\ ret.err = "OK"
                 /\ \A e \in hit : ret.value = e.value

\* A key added before both rehashes is read after them.
C3_Witness ==
    /\ ret.op = "table_get"
    /\ ret.err = "OK"
    /\ Cardinality(Added(ret.section)) = 5
    /\ TableChunks(ret.section) = 4

\* ----------------------------------------------------------------------- C4

\* A letter or a digit: a byte that is a one-byte unquoted string.
Plain(c) == c \in (Ord["a"]..Ord["z"]) \cup (Ord["0"]..Ord["9"])

\* The line `{n}`.
IsTableHeader(l) ==
    Len(l) = 3 /\ l[1] = Ord["{"] /\ Plain(l[2]) /\ l[3] = Ord["}"]

\* The line `k=v`.
IsEntry(l) == Len(l) = 3 /\ Plain(l[1]) /\ l[2] = Ord["="] /\ Plain(l[3])

\* A text of table headers and entries only, that starts with a header.
TablesOnly(lines) ==
    /\ lines # <<>>
    /\ IsTableHeader(lines[1])
    /\ \A i \in DOMAIN lines : IsTableHeader(lines[i]) \/ IsEntry(lines[i])

HeaderOf(lines, i) == SetMax({j \in 1..i : IsTableHeader(lines[j])})

\* The entry lines of the section that starts on line h.
EntriesUnder(lines, h) ==
    {i \in DOMAIN lines : IsEntry(lines[i]) /\ HeaderOf(lines, i) = h}

\* The first line of its section that gives the key of line i.
FirstOf(lines, i) ==
    SetMin({j \in EntriesUnder(lines, HeaderOf(lines, i)) :
               lines[j][1] = lines[i][1]})

\* The header on line h made a section: its name was new to the document
\* and the header was not logged.  (lsml_data_add_section_internal reports a
\* section it has no memory for as SectionNameReused; the lines under such a
\* header are skipped.)
MakesSection(lines, h) ==
    /\ <<lines[h][2]>> \notin ret.names_before
    /\ <<lines[h][2]>> \in {x.name : x \in Tables}
    /\ ~\E n \in DOMAIN ret.log :
           ret.log[n] = [err |-> "SECTION_NAME_REUSED", line |-> h]

\* The parse went past line i: OutOfMemory did not end it on or before it.
Reached(i) == ret.err = "OK" \/ ret.line > i

Logged(errcode, i) ==
    \E n \in DOMAIN ret.log : ret.log[n] = [err |-> errcode, line |-> i]

\* What the entry on line i of a parsed text comes to.
ParsedEntry(lines, i) ==
    LET h == HeaderOf(lines, i)
        first == FirstOf(lines, i)
        sec == lsml_data_get_section(State, LSML_TABLE, <<lines[h][2]>>, 1)
        got == lsml_table_get(State, sec.section_found, <<lines[i][1]>>, 1)
    IN  /\ sec.err = "OK"
        /\ got.err = "OK"
        /\ got.value = <<lines[first][3]>>
        /\ Logged("TABLE_KEY_REUSED", i) <=> first # i
        /\ ret.err = "OK" =>
              lsml_section_len(State, sec.section_found)
                  = Cardinality({lines[j][1] : j \in EntriesUnder(lines, h)})

\* No two nodes of the table have the same key, and the entry count is the
\* number of nodes.
OncePerKey(table) ==
    /\ \A n1, n2 \in TableNodes(State, table) :
          StrBytes(mem, mem[n1].str) = StrBytes(mem, mem[n2].str) => n1 = n2
    /\ lsml_section_len(State, table) = Cardinality(TableNodes(State, table))

\* C4: each key occurs at most once in a table.  lsml_table_add_entry with
\* a key the table has fails with TableKeyReused; a parsed `key=value` line
\* whose key the table has logs TableKeyReused (unless OutOfMemory ended the
\* parse on or before that line); either way the entry count and the value
\* stored for the key stay as they were: the first value wins.
C4_KeyOnce ==
    /\ \A x \in Tables : OncePerKey(x.ptr)
    /\ (ret.op = "table_add" /\ ret.key \in {e.key : e \in ret.before}) =>
          /\ ret.err = "TABLE_KEY_REUSED"
          /\ Entries(State, ret.section) = ret.before
          /\ lsml_section_len(State, ret.section) = ret.len_before
    /\ ret.op = "parse" =>
          /\ \A x \in ret.tables_before :
                /\ Entries(State, x.table) = x.entries
                /\ lsml_section_len(State, x.table) = x.len
          /\ LET lines == SplitLines(ret.in, <<>>)
             IN  TablesOnly(lines) =>
                    \A i \in DOMAIN lines :
                        (/\ IsEntry(lines[i])
                         /\ MakesSection(lines, HeaderOf(lines, i))
                         /\ Reached(i)) => ParsedEntry(lines, i)

\* A key that a parsed table got twice in its text, with the second line
\* logged, is then added through lsml_table_add_entry.
C4_Witness ==
    /\ ret.op = "table_add"
    /\ ret.err = "TABLE_KEY_REUSED"
    /\ "TABLE_KEY_REUSED" \in hist.logged
    /\ ret.section \notin {x.ptr : x \in hist.sections}
    /\ Cardinality(ret.before) >= 2

\* ----------------------------------------------------------------------- C5

\* The sections whose add succeeded under the name.
AddedAs(name) == {x \in hist.sections : x.name = name}

\* A lookup by the type a section was added with, or by ANYSECTION, returns
\* that section and its type.
RoundTrip ==
    ret.op = "get_section" =>
        \A x \in AddedAs(ret.name) :
            ret.desired \in {x.type, LSML_ANYSECTION} =>
                /\ ret.err = "OK"
                /\ ret.section = x.ptr
                /\ ret.type = x.type

\* A section as its owner sees it: everything but its link in the bucket
\* chain, which a rehash of the section map may rewrite.
Contents(obj) == [obj EXCEPT !.next = NULL]

\* An add under a name that was added before fails with one of errs and
\* leaves the section count and the existing section as they were.
SecondAdd(errs) ==
    (ret.op = "add_section" /\ ret.before # {}) =>
        /\ ret.err \in errs
        /\ data.n_sections = ret.n_before
        /\ \A x \in ret.before : Contents(mem[x.ptr]) = Contents(x.obj)

\* C5: a section added is found again, with its type, after any later adds
\* and rehashes of the section map; a second add under its name fails with
\* SectionNameReused and changes neither the section count nor the section.
C5_SectionRoundTrip == RoundTrip /\ SecondAdd({"SECTION_NAME_REUSED"})

\* What the code keeps of C5: lsml_data_add_section_internal grows the
\* section map before it looks the name up, so the second add fails with
\* OutOfMemory when the map is due to grow and the buffer cannot hold the
\* new bucket chunks.
C5_UpToOutOfMemory ==
    RoundTrip /\ SecondAdd({"SECTION_NAME_REUSED", "OUT_OF_MEMORY"})

\* An array is found after both rehashes of the section map.
C5_BothRehashes ==
    /\ ret.op = "get_section"
    /\ ret.err = "OK"
    /\ ret.type = LSML_ARRAY
    /\ ret.desired = LSML_ANYSECTION
    /\ data.n_section_chunks = 4
    /\ data.n_sections = 4

\* --------------------------------------------------------------- C6 .. C10

\* C6: lsml_array_get(A, i) returns the i-th pushed value for every
\* i < len(A) and NotFound, without faulting, for every i >= len(A).
C6_ArrayGet ==
    ret.op = "array_get" =>
        LET p == Pushed(ret.section)
        IN  IF ret.index < Len(p)
            THEN ret.err = "OK" /\ (ret.want => ret.value = p[ret.index + 1].v)
            ELSE ret.err = "NOT_FOUND"

\* C7: lsml_array_get_2d(A, row, col) returns the element at column col of
\* row `row` when the cell exists and NotFound for every other (row, col),
\* the last row included.
C7_ArrayGet2d ==
    ret.op = "array_get_2d" =>
        LET p == Pushed(ret.section)
            i == CellAt(p, ret.row, ret.col)
        IN  IF i >= 0
            THEN ret.err = "OK" /\ (ret.want => ret.value = p[i + 1].v)
            ELSE ret.err = "NOT_FOUND"

\* C8: iterating with lsml_array_next from a zeroed iterator yields exactly
\* len(A) items, in push order, and then reports the end.
C8_ArrayNext ==
    ret.op = "array_next" =>
        /\ ~ret.more
        /\ ret.items = PushedValues(Pushed(ret.section))

C8_Witness ==
    /\ ret.op = "array_next"
    /\ Len(ret.items) = 2 * LSML_CHUNK_LEN
    /\ ret.items = PushedValues(Pushed(ret.section))

\* C9: lsml_array_next_2d yields the values of lsml_array_next in the same
\* order, each with its (row, col): col is 0 at the first element of a row
\* and grows by one within it, row grows by one at each recorded row start.
C9_ArrayNext2d ==
    ret.op = "array_next_2d" =>
        LET p == Pushed(ret.section)
            flat == IterateArray(State, ret.section, ZeroIter, <<>>, MaxPush + 2)
        IN  /\ ~ret.more
            /\ [i \in 1..Len(ret.items) |-> ret.items[i].value] = flat.items
            /\ Len(ret.items) = Len(p)
            /\ \A i \in 1..Len(ret.items) :
                  /\ ret.items[i].row = RowOf(p, i - 1)
                  /\ ret.items[i].col = ColOf(p, i - 1)

C9_Witness ==
    /\ ret.op = "array_next_2d"
    /\ Len(ret.items) > LSML_CHUNK_LEN
    /\ \E i \in 2..Len(ret.items) : ret.items[i].row = 1 /\ ret.items[i].col = 1

\* C10: lsml_array_2d_size reports rows = 1 + the number of pushes with
\* start_new_row set made on a non-empty array, cols = the widest row when
\* is_jagged and the narrowest when not; one element gives (1, 1).
C10_Array2dSize ==
    ret.op = "array_2d_size" =>
        LET p == Pushed(ret.section)
        IN  /\ ret.err = "OK"
            /\ ret.rows = 1 + Cardinality({j \in 2..Len(p) : p[j].newrow})
            /\ ret.cols = IF ret.is_jagged THEN SetMax(RowWidths(p))
                          ELSE SetMin(RowWidths(p))
            /\ Len(p) = 1 => ret.rows = 1 /\ ret.cols = 1

C10_Witness ==
    /\ ret.op = "array_2d_size"
    /\ ~ret.is_jagged
    /\ ret.rows = 2
    /\ ret.cols = 1
    /\ Len(Pushed(ret.section)) = 3

====
